---- MODULE Spec2Model ----
(***************************************************************************)
(* Model of the alpha-notation interpreter core: the primitive comparison  *)
(* and arithmetic operators (src/src/base.rs), the instruction catalogue   *)
(* and its executor (src/src/instructions.rs), and the control-flow        *)
(* resolver and driver loop that the instructions are run by.              *)
(***************************************************************************)
EXTENDS Integers, Sequences, FiniteSets, TLC

VARIABLES
    accumulators,            \* RuntimeArgs.accumulators : index -> Option<i32>
    memory_cells,            \* RuntimeArgs.memory_cells : label -> Option<i32>
    stack,                   \* RuntimeArgs.stack        : Vec<i32>
    instruction_labels,      \* ControlFlow.instruction_labels : label -> index
    next_instruction_index,  \* ControlFlow.next_instruction_index (the cursor)
    instructions,            \* Runner.instructions : the loaded program
    status,                  \* "Direct" (Instruction::run is called directly),
                             \* "Observed" (the observed call was made),
                             \* "Running", "NormalEnd", "Error", "Aborted"
    instr,                   \* the instruction executed last
    result,                  \* what that execution returned
    prev,                    \* the machine state just before that execution
    steps                    \* number of set-up calls (direct calls) or of
                             \* executed instructions (driver) so far

vars == <<accumulators, memory_cells, stack, instruction_labels,
          next_instruction_index, instructions, status, instr, result,
          prev, steps>>

-----------------------------------------------------------------------------
(* Bounds of the exploration.                                              *)

\* at most this many accumulators are configured (indices 0 .. MaxAcc-1)
MaxAcc == 2
\* at most this many direct calls set the machine up before the observed one
MaxArrange == 2
\* at most this many instructions are executed by the driver in one run
MaxRunSteps == 5
\* length of the programs loaded into the driver
ProgLen == 3

\* accumulator indices used as instruction operands; with fewer than MaxAcc
\* accumulators configured the upper ones do not exist
AccIdx == 0 .. (MaxAcc - 1)
\* memory-cell labels used as instruction operands
CellLabels == {"a", "b"}
\* jump labels used as instruction operands
JumpLabels == {"loop", "none"}
\* the index the label table binds "loop" to
LoopTarget == 5

-----------------------------------------------------------------------------
(* Option<i32>: None is the empty sequence, Some(v) the one-element one.   *)

None == << >>
Some(v) == << v >>
is_some(o) == o # None
unwrap(o) == o[1]
unwrap_or(o, d) == IF is_some(o) THEN o[1] ELSE d

-----------------------------------------------------------------------------
(* 32-bit signed arithmetic.                                               *)

I32Max == 2147483647
I32Min == (-I32Max) - 1

\* constants used as instruction operands
Consts == {0, 2, I32Max}

AddOverflows(x, y) ==
    \/ y > 0 /\ x > I32Max - y
    \/ y < 0 /\ x < I32Min - y

\* x + y modulo 2^32, in two's complement
WrappingAdd(x, y) ==
    IF y > 0 /\ x > I32Max - y THEN (x + I32Min) + (y + I32Min)
    ELSE IF y < 0 /\ x < I32Min - y THEN (x - I32Min) + (y - I32Min)
    ELSE x + y

SubOverflows(x, y) ==
    \/ y < 0 /\ x > I32Max + y
    \/ y > 0 /\ x < I32Min + y

\* x - y modulo 2^32
WrappingSub(x, y) ==
    IF y = I32Min THEN WrappingAdd(x, I32Min) ELSE WrappingAdd(x, -y)

RECURSIVE MulBits(_, _, _)
\* sum of (x << i) over the set bits i of the low n bits of y, modulo 2^32
MulBits(x, y, n) ==
    IF n = 0 \/ x = 0 \/ y = 0 THEN 0
    ELSE CHOOSE r \in {WrappingAdd(IF y % 2 = 1 THEN x ELSE 0,
                                   MulBits(d, y \div 2, n - 1)) :
                          d \in {WrappingAdd(x, x)}} : TRUE

\* x * y modulo 2^32
WrappingMul(x, y) == MulBits(x, y, 32)

MulOverflows(x, y) ==
    IF x = 0 \/ y = 0 THEN FALSE
    ELSE IF x = -1 THEN y = I32Min
    ELSE IF y = -1 THEN x = I32Min
    ELSE WrappingMul(x, y) \div x # y

\* -(|x| \div m) for m > 0, without forming |x| or the quotient's magnitude
\* (neither is a 32-bit value for I32Min)
NegAbsDiv(x, m) ==
    IF x >= 0 THEN -(x \div m)
    ELSE LET a == -(x + 1)
         IN  IF a % m = m - 1 THEN (-(a \div m)) - 1 ELSE -(a \div m)

\* quotient rounded toward zero; y # 0 and not (x = I32Min and y = -1)
TruncDiv(x, y) ==
    IF y = I32Min THEN (IF x = I32Min THEN 1 ELSE 0)
    ELSE LET m == IF y < 0 THEN -y ELSE y
             n == NegAbsDiv(x, m)
         IN  IF (x < 0) = (y < 0) THEN -n ELSE n

-----------------------------------------------------------------------------
(* Results.  Result<T, String> is Ok(value) or Err(message); a message is  *)
(* kept as its kind and the index or label it names.  A panic is the third *)
(* way an execution can end: the call never returns to its caller.         *)

Ok(v) == [kind |-> "Ok", value |-> v, msg |-> "", index |-> 0, label |-> ""]
OkUnit == Ok(0)
Err(m, i, l) == [kind |-> "Err", value |-> 0, msg |-> m, index |-> i, label |-> l]
Panic(m) == [kind |-> "Panic", value |-> 0, msg |-> m, index |-> 0, label |-> ""]
NoResult == [kind |-> "NotRun", value |-> 0, msg |-> "", index |-> 0, label |-> ""]

\* "Accumulator with index {} does not exist!"
AccumulatorDoesNotExist(i) == Err("AccumulatorDoesNotExist", i, "")
\* "Accumulator with index {} does not contain data!"
AccumulatorNoData(i) == Err("AccumulatorDoesNotContainData", i, "")
\* "Memory cell with label {} does not exist!"
MemoryCellDoesNotExist(l) == Err("MemoryCellDoesNotExist", 0, l)
\* "Memory cell with label {} does not contain data!"
MemoryCellNoData(l) == Err("MemoryCellDoesNotContainData", 0, l)
\* the resolver's error for a label that is not in the label table
LabelNotFound(l) == Err("LabelNotFound", 0, l)

-----------------------------------------------------------------------------
(* base.rs: Comparison and Operation.                                      *)

Comparisons == {"Less", "LessOrEqual", "Equal", "MoreOrEqual", "More"}
Operations == {"Plus", "Minus", "Multiplication", "Division"}

\* cmp as it would be if LessOrEqual did not hold for equal values
cmp_less_or_equal_strict(comparison, x, y) ==
    CASE comparison = "Less" -> x < y
      [] comparison = "LessOrEqual" -> x < y
      [] comparison = "Equal" -> x = y
      [] comparison = "MoreOrEqual" -> x >= y
      [] comparison = "More" -> x > y

\* cmp as it would be if More also held for equal values
cmp_more_includes_equal(comparison, x, y) ==
    CASE comparison = "Less" -> x < y
      [] comparison = "LessOrEqual" -> x <= y
      [] comparison = "Equal" -> x = y
      [] comparison = "MoreOrEqual" -> x >= y
      [] comparison = "More" -> x >= y

cmp(comparison, x, y) ==
    CASE comparison = "Less" -> x < y
      [] comparison = "LessOrEqual" -> x <= y
      [] comparison = "Equal" -> x = y
      [] comparison = "MoreOrEqual" -> x >= y
      [] comparison = "More" -> x > y

\* calc as it would be with a division that rounds toward minus infinity
\* for a positive divisor
calc_floor_division(operation, x, y, overflow_checks) ==
    CASE operation = "Plus" ->
           IF AddOverflows(x, y)
           THEN IF overflow_checks THEN Panic("attempt to add with overflow")
                ELSE Ok(WrappingAdd(x, y))
           ELSE Ok(x + y)
      [] operation = "Minus" ->
           IF SubOverflows(x, y)
           THEN IF overflow_checks THEN Panic("attempt to subtract with overflow")
                ELSE Ok(WrappingSub(x, y))
           ELSE Ok(x - y)
      [] operation = "Multiplication" ->
           IF MulOverflows(x, y)
           THEN IF overflow_checks THEN Panic("attempt to multiply with overflow")
                ELSE Ok(WrappingMul(x, y))
           ELSE Ok(x * y)
      [] operation = "Division" ->
           IF y = 0 THEN Panic("attempt to divide by zero")
           ELSE IF x = I32Min /\ y = -1 THEN Panic("attempt to divide with overflow")
           ELSE IF y > 0 THEN Ok(x \div y)
           ELSE Ok(TruncDiv(x, y))

\* calc as it would be with a division that yields 0 for a zero divisor
\* (checked_div(..).unwrap_or(0)) instead of panicking
calc_zero_on_zero_divisor(operation, x, y, overflow_checks) ==
    CASE operation = "Plus" ->
           IF AddOverflows(x, y)
           THEN IF overflow_checks THEN Panic("attempt to add with overflow")
                ELSE Ok(WrappingAdd(x, y))
           ELSE Ok(x + y)
      [] operation = "Minus" ->
           IF SubOverflows(x, y)
           THEN IF overflow_checks THEN Panic("attempt to subtract with overflow")
                ELSE Ok(WrappingSub(x, y))
           ELSE Ok(x - y)
      [] operation = "Multiplication" ->
           IF MulOverflows(x, y)
           THEN IF overflow_checks THEN Panic("attempt to multiply with overflow")
                ELSE Ok(WrappingMul(x, y))
           ELSE Ok(x * y)
      [] operation = "Division" ->
           IF y = 0 THEN Ok(0)
           ELSE IF x = I32Min /\ y = -1 THEN Panic("attempt to divide with overflow")
           ELSE Ok(TruncDiv(x, y))

\* overflow_checks: whether the build panics on +, -, * overflow (the debug
\* profile) or wraps (the release profile); division panics in both.
calc(operation, x, y, overflow_checks) ==
    CASE operation = "Plus" ->
           IF AddOverflows(x, y)
           THEN IF overflow_checks THEN Panic("attempt to add with overflow")
                ELSE Ok(WrappingAdd(x, y))
           ELSE Ok(x + y)
      [] operation = "Minus" ->
           IF SubOverflows(x, y)
           THEN IF overflow_checks THEN Panic("attempt to subtract with overflow")
                ELSE Ok(WrappingSub(x, y))
           ELSE Ok(x - y)
      [] operation = "Multiplication" ->
           IF MulOverflows(x, y)
           THEN IF overflow_checks THEN Panic("attempt to multiply with overflow")
                ELSE Ok(WrappingMul(x, y))
           ELSE Ok(x * y)
      [] operation = "Division" ->
           IF y = 0 THEN Panic("attempt to divide by zero")
           ELSE IF x = I32Min /\ y = -1 THEN Panic("attempt to divide with overflow")
           ELSE Ok(TruncDiv(x, y))

-----------------------------------------------------------------------------
(* The instruction catalogue.  An instruction is a record; the fields a    *)
(* variant does not carry keep their defaults.                             *)

NoArgs == [name |-> "", operation |-> "", comparison |-> "",
           a_idx_a |-> 0, a_idx_b |-> 0, a_idx_c |-> 0,
           label_a |-> "", label_b |-> "", label_c |-> "",
           value |-> 0, label |-> ""]

Push == [NoArgs EXCEPT !.name = "Push"]
Pop == [NoArgs EXCEPT !.name = "Pop"]
AssignAccumulatorValue(a, x) ==
    [NoArgs EXCEPT !.name = "AssignAccumulatorValue", !.a_idx_a = a, !.value = x]
AssignAccumulatorValueFromAccumulator(a, b) ==
    [NoArgs EXCEPT !.name = "AssignAccumulatorValueFromAccumulator",
                   !.a_idx_a = a, !.a_idx_b = b]
AssignAccumulatorValueFromMemoryCell(a, l) ==
    [NoArgs EXCEPT !.name = "AssignAccumulatorValueFromMemoryCell",
                   !.a_idx_a = a, !.label_a = l]
AssignMemoryCellValue(l, x) ==
    [NoArgs EXCEPT !.name = "AssignMemoryCellValue", !.label_a = l, !.value = x]
AssignMemoryCellValueFromAccumulator(l, a) ==
    [NoArgs EXCEPT !.name = "AssignMemoryCellValueFromAccumulator",
                   !.label_a = l, !.a_idx_a = a]
AssingMemoryCellValueFromMemoryCell(la, lb) ==
    [NoArgs EXCEPT !.name = "AssingMemoryCellValueFromMemoryCell",
                   !.label_a = la, !.label_b = lb]
CalcAccumulatorWithConstant(op, a, x) ==
    [NoArgs EXCEPT !.name = "CalcAccumulatorWithConstant", !.operation = op,
                   !.a_idx_a = a, !.value = x]
CalcAccumulatorWithAccumulator(op, a, b) ==
    [NoArgs EXCEPT !.name = "CalcAccumulatorWithAccumulator", !.operation = op,
                   !.a_idx_a = a, !.a_idx_b = b]
CalcAccumulatorWithAccumulators(op, a, b, c) ==
    [NoArgs EXCEPT !.name = "CalcAccumulatorWithAccumulators", !.operation = op,
                   !.a_idx_a = a, !.a_idx_b = b, !.a_idx_c = c]
CalcAccumulatorWithMemoryCell(op, a, l) ==
    [NoArgs EXCEPT !.name = "CalcAccumulatorWithMemoryCell", !.operation = op,
                   !.a_idx_a = a, !.label_a = l]
CalcAccumulatorWithMemoryCells(op, a, la, lb) ==
    [NoArgs EXCEPT !.name = "CalcAccumulatorWithMemoryCells", !.operation = op,
                   !.a_idx_a = a, !.label_a = la, !.label_b = lb]
CalcMemoryCellWithMemoryCellConstant(op, la, lb, x) ==
    [NoArgs EXCEPT !.name = "CalcMemoryCellWithMemoryCellConstant",
                   !.operation = op, !.label_a = la, !.label_b = lb, !.value = x]
CalcMemoryCellWithMemoryCellAccumulator(op, la, lb, a) ==
    [NoArgs EXCEPT !.name = "CalcMemoryCellWithMemoryCellAccumulator",
                   !.operation = op, !.label_a = la, !.label_b = lb, !.a_idx_a = a]
CalcMemoryCellWithMemoryCells(op, la, lb, lc) ==
    [NoArgs EXCEPT !.name = "CalcMemoryCellWithMemoryCells", !.operation = op,
                   !.label_a = la, !.label_b = lb, !.label_c = lc]
Goto(l) == [NoArgs EXCEPT !.name = "Goto", !.label = l]
GotoIfAccumulator(c, l, a, b) ==
    [NoArgs EXCEPT !.name = "GotoIfAccumulator", !.comparison = c, !.label = l,
                   !.a_idx_a = a, !.a_idx_b = b]
GotoIfConstant(c, l, a, x) ==
    [NoArgs EXCEPT !.name = "GotoIfConstant", !.comparison = c, !.label = l,
                   !.a_idx_a = a, !.value = x]
GotoIfMemoryCell(c, l, a, mcl) ==
    [NoArgs EXCEPT !.name = "GotoIfMemoryCell", !.comparison = c, !.label = l,
                   !.a_idx_a = a, !.label_a = mcl]
PrintAccumulators == [NoArgs EXCEPT !.name = "PrintAccumulators"]
PrintMemoryCells == [NoArgs EXCEPT !.name = "PrintMemoryCells"]
PrintStack == [NoArgs EXCEPT !.name = "PrintStack"]

-----------------------------------------------------------------------------
(* instructions.rs: the precondition checks.  ra is the RuntimeArgs value  *)
(* [accumulators, memory_cells, stack].                                    *)

\* Tests if the accumulator with index exists.
assert_accumulator_exists(ra, index) ==
    IF index \in DOMAIN ra.accumulators THEN OkUnit
    ELSE AccumulatorDoesNotExist(index)

\* assert_accumulator_contains_value as it would be if an accumulator without
\* data were reported like a missing one
assert_accumulator_contains_value_conflated(ra, index) ==
    IF index \in DOMAIN ra.accumulators /\ is_some(ra.accumulators[index])
    THEN Ok(unwrap(ra.accumulators[index]))
    ELSE AccumulatorDoesNotExist(index)

\* Tests if the accumulator with index exists and contains a value.
assert_accumulator_contains_value(ra, index) ==
    IF index \in DOMAIN ra.accumulators
    THEN IF is_some(ra.accumulators[index])
         THEN Ok(unwrap(ra.accumulators[index]))
         ELSE AccumulatorNoData(index)
    ELSE AccumulatorDoesNotExist(index)

\* Tests if the memory cell with label exists.
assert_memory_cell_exists(ra, label) ==
    IF label \in DOMAIN ra.memory_cells THEN OkUnit
    ELSE MemoryCellDoesNotExist(label)

\* Tests if the memory cell with label exists and contains a value.
assert_memory_cell_contains_value(ra, label) ==
    IF label \in DOMAIN ra.memory_cells
    THEN IF is_some(ra.memory_cells[label])
         THEN Ok(unwrap(ra.memory_cells[label]))
         ELSE MemoryCellNoData(label)
    ELSE MemoryCellDoesNotExist(label)

-----------------------------------------------------------------------------
(* What a function of instructions.rs leaves behind: its result and the    *)
(* runtime arguments as it left them.                                      *)

\* the `?` operator: the failed result is returned, nothing was written
Return(r, ra) == [res |-> r, ra |-> ra]
\* runtime_args.accumulators.get_mut(i).unwrap().data = Some(v); Ok(())
StoreAccumulator(ra, i, v) ==
    [res |-> OkUnit,
     ra |-> [ra EXCEPT !.accumulators = [@ EXCEPT ![i] = Some(v)]]]
\* runtime_args.memory_cells.get_mut(l).unwrap().data = Some(v); Ok(())
StoreMemoryCell(ra, l, v) ==
    [res |-> OkUnit,
     ra |-> [ra EXCEPT !.memory_cells = [@ EXCEPT ![l] = Some(v)]]]
\* ... = Some(operation.calc(x, y)): calc runs before the store and may panic
StoreCalcAccumulator(ra, i, r) ==
    IF r.kind = "Ok" THEN StoreAccumulator(ra, i, r.value) ELSE Return(r, ra)
StoreCalcMemoryCell(ra, l, r) ==
    IF r.kind = "Ok" THEN StoreMemoryCell(ra, l, r.value) ELSE Return(r, ra)

\* Vec::pop as it would be if it handed out the oldest element
stack_pop_oldest(st) == IF Len(st) = 0 THEN None ELSE Some(st[1])

\* Vec::pop: the last element, or None
stack_pop(st) == IF Len(st) = 0 THEN None ELSE Some(st[Len(st)])
stack_rest(st) == IF Len(st) = 0 THEN st ELSE SubSeq(st, 1, Len(st) - 1)

-----------------------------------------------------------------------------
(* instructions.rs: push, pop and the assignments.                         *)

\* push as it would be if Vec::insert(0, ..) were used for Vec::push
push_at_bottom(ra) ==
    LET e == assert_accumulator_exists(ra, 0) IN
    IF e.kind # "Ok" THEN Return(e, ra)
    ELSE [res |-> OkUnit,
          ra |-> [ra EXCEPT !.stack = <<unwrap_or(ra.accumulators[0], 0)>> \o @]]

\* push as it would be if a[0] had to hold a value
push_requiring_data(ra) ==
    LET e == assert_accumulator_contains_value(ra, 0) IN
    IF e.kind # "Ok" THEN Return(e, ra)
    ELSE [res |-> OkUnit,
          ra |-> [ra EXCEPT !.stack = Append(@, e.value)]]

push(ra) ==
    LET e == assert_accumulator_exists(ra, 0) IN
    IF e.kind # "Ok" THEN Return(e, ra)
    ELSE [res |-> OkUnit,
          ra |-> [ra EXCEPT !.stack = Append(@, unwrap_or(ra.accumulators[0], 0))]]

\* pop as it would be if the stack were popped before a[0] is validated
pop_before_validation(ra) ==
    LET e == assert_accumulator_contains_value(ra, 0)
        popped == [ra EXCEPT !.stack = stack_rest(@)]
    IN  IF e.kind # "Ok" THEN Return(e, popped)
        ELSE StoreAccumulator(popped, 0, unwrap_or(stack_pop(ra.stack), 0))

\* pop as it would be if a[0] took Vec::pop's Option as it is, so that popping
\* an empty stack left a[0] without data
pop_storing_option(ra) ==
    LET e == assert_accumulator_contains_value(ra, 0) IN
    IF e.kind # "Ok" THEN Return(e, ra)
    ELSE [res |-> OkUnit,
          ra |-> [ra EXCEPT !.stack = stack_rest(@),
                            !.accumulators[0] = stack_pop(ra.stack)]]

pop(ra) ==
    LET e == assert_accumulator_contains_value(ra, 0) IN
    IF e.kind # "Ok" THEN Return(e, ra)
    ELSE StoreAccumulator([ra EXCEPT !.stack = stack_rest(@)], 0,
                          unwrap_or(stack_pop(ra.stack), 0))

assign_accumulator_value(ra, a_idx, value) ==
    LET e == assert_accumulator_exists(ra, a_idx) IN
    IF e.kind # "Ok" THEN Return(e, ra)
    ELSE StoreAccumulator(ra, a_idx, value)

\* assign_accumulator_value_from_accumulator as it would be if the value were
\* moved out of the source (Option::take) instead of copied
assign_accumulator_value_from_accumulator_moving(ra, a_idx_a, a_idx_b) ==
    LET src == assert_accumulator_contains_value(ra, a_idx_b)
        e == assert_accumulator_exists(ra, a_idx_a)
    IN  IF src.kind # "Ok" THEN Return(src, ra)
        ELSE IF e.kind # "Ok" THEN Return(e, ra)
        ELSE StoreAccumulator([ra EXCEPT !.accumulators[a_idx_b] = None],
                              a_idx_a, src.value)

assign_accumulator_value_from_accumulator(ra, a_idx_a, a_idx_b) ==
    LET src == assert_accumulator_contains_value(ra, a_idx_b)
        e == assert_accumulator_exists(ra, a_idx_a)
    IN  IF src.kind # "Ok" THEN Return(src, ra)
        ELSE IF e.kind # "Ok" THEN Return(e, ra)
        ELSE StoreAccumulator(ra, a_idx_a, src.value)

assign_accumulator_value_from_memory_cell(ra, a_idx, label) ==
    LET e == assert_accumulator_exists(ra, a_idx)
        value == assert_memory_cell_contains_value(ra, label)
    IN  IF e.kind # "Ok" THEN Return(e, ra)
        ELSE IF value.kind # "Ok" THEN Return(value, ra)
        ELSE StoreAccumulator(ra, a_idx, value.value)

\* assign_memory_cell_value as it would be if the cell had to hold a value
assign_memory_cell_value_requiring_data(ra, label, value) ==
    LET e == assert_memory_cell_contains_value(ra, label) IN
    IF e.kind # "Ok" THEN Return(e, ra)
    ELSE StoreMemoryCell(ra, label, value)

\* assign_memory_cell_value as it would be if the value were inserted into
\* the map without the existence check, which creates a missing cell
assign_memory_cell_value_inserting(ra, label, value) ==
    [res |-> OkUnit,
     ra |-> [ra EXCEPT !.memory_cells =
                [l \in DOMAIN @ \cup {label} |->
                    IF l = label THEN Some(value) ELSE @[l]]]]

assign_memory_cell_value(ra, label, value) ==
    LET e == assert_memory_cell_exists(ra, label) IN
    IF e.kind # "Ok" THEN Return(e, ra)
    ELSE StoreMemoryCell(ra, label, value)

assign_memory_cell_value_from_accumulator(ra, label, a_idx) ==
    LET e == assert_memory_cell_exists(ra, label)
        value == assert_accumulator_contains_value(ra, a_idx)
    IN  IF e.kind # "Ok" THEN Return(e, ra)
        ELSE IF value.kind # "Ok" THEN Return(value, ra)
        ELSE StoreMemoryCell(ra, label, value.value)

assign_memory_cell_value_from_memory_cell(ra, label_a, label_b) ==
    LET e == assert_memory_cell_exists(ra, label_a)
        value == assert_memory_cell_contains_value(ra, label_b)
    IN  IF e.kind # "Ok" THEN Return(e, ra)
        ELSE IF value.kind # "Ok" THEN Return(value, ra)
        ELSE StoreMemoryCell(ra, label_a, value.value)

-----------------------------------------------------------------------------
(* instructions.rs: the calculations.  oc is the build's overflow_checks.  *)

calc_accumulator_with_constant(ra, oc, operation, a_idx, value) ==
    LET v == assert_accumulator_contains_value(ra, a_idx) IN
    IF v.kind # "Ok" THEN Return(v, ra)
    ELSE StoreCalcAccumulator(ra, a_idx, calc(operation, v.value, value, oc))

calc_accumulator_with_accumulator(ra, oc, operation, a_idx_a, a_idx_b) ==
    LET a == assert_accumulator_contains_value(ra, a_idx_a)
        b == assert_accumulator_contains_value(ra, a_idx_b)
    IN  IF a.kind # "Ok" THEN Return(a, ra)
        ELSE IF b.kind # "Ok" THEN Return(b, ra)
        ELSE StoreCalcAccumulator(ra, a_idx_a, calc(operation, a.value, b.value, oc))

\* calc_accumulator_with_accumulators as it would be if the operands were
\* read before the destination is checked
calc_accumulator_with_accumulators_operands_first(ra, oc, operation, a_idx_a, a_idx_b, a_idx_c) ==
    LET e == assert_accumulator_exists(ra, a_idx_a)
        a == assert_accumulator_contains_value(ra, a_idx_b)
        b == assert_accumulator_contains_value(ra, a_idx_c)
    IN  IF a.kind # "Ok" THEN Return(a, ra)
        ELSE IF b.kind # "Ok" THEN Return(b, ra)
        ELSE IF e.kind # "Ok" THEN Return(e, ra)
        ELSE StoreCalcAccumulator(ra, a_idx_a, calc(operation, a.value, b.value, oc))

\* calc_accumulator_with_accumulators as it would be if the two operands were
\* handed to the operation in the opposite order
calc_accumulator_with_accumulators_swapped(ra, oc, operation, a_idx_a, a_idx_b, a_idx_c) ==
    LET e == assert_accumulator_exists(ra, a_idx_a)
        a == assert_accumulator_contains_value(ra, a_idx_b)
        b == assert_accumulator_contains_value(ra, a_idx_c)
    IN  IF e.kind # "Ok" THEN Return(e, ra)
        ELSE IF a.kind # "Ok" THEN Return(a, ra)
        ELSE IF b.kind # "Ok" THEN Return(b, ra)
        ELSE StoreCalcAccumulator(ra, a_idx_a, calc(operation, b.value, a.value, oc))

calc_accumulator_with_accumulators(ra, oc, operation, a_idx_a, a_idx_b, a_idx_c) ==
    LET e == assert_accumulator_exists(ra, a_idx_a)
        a == assert_accumulator_contains_value(ra, a_idx_b)
        b == assert_accumulator_contains_value(ra, a_idx_c)
    IN  IF e.kind # "Ok" THEN Return(e, ra)
        ELSE IF a.kind # "Ok" THEN Return(a, ra)
        ELSE IF b.kind # "Ok" THEN Return(b, ra)
        ELSE StoreCalcAccumulator(ra, a_idx_a, calc(operation, a.value, b.value, oc))

calc_accumulator_with_memory_cell(ra, oc, operation, a_idx, label) ==
    LET a == assert_accumulator_contains_value(ra, a_idx)
        b == assert_memory_cell_contains_value(ra, label)
    IN  IF a.kind # "Ok" THEN Return(a, ra)
        ELSE IF b.kind # "Ok" THEN Return(b, ra)
        ELSE StoreCalcAccumulator(ra, a_idx, calc(operation, a.value, b.value, oc))

calc_accumulator_with_memory_cells(ra, oc, operation, a_idx, label_a, label_b) ==
    LET e == assert_accumulator_exists(ra, a_idx)
        a == assert_memory_cell_contains_value(ra, label_a)
        b == assert_memory_cell_contains_value(ra, label_b)
    IN  IF e.kind # "Ok" THEN Return(e, ra)
        ELSE IF a.kind # "Ok" THEN Return(a, ra)
        ELSE IF b.kind # "Ok" THEN Return(b, ra)
        ELSE StoreCalcAccumulator(ra, a_idx, calc(operation, a.value, b.value, oc))

calc_memory_cell_with_memory_cell_constant(ra, oc, operation, label_a, label_b, value) ==
    LET e == assert_memory_cell_exists(ra, label_a)
        a == assert_memory_cell_contains_value(ra, label_b)
    IN  IF e.kind # "Ok" THEN Return(e, ra)
        ELSE IF a.kind # "Ok" THEN Return(a, ra)
        ELSE StoreCalcMemoryCell(ra, label_a, calc(operation, a.value, value, oc))

calc_memory_cell_with_memory_cell_accumulator(ra, oc, operation, label_a, label_b, a_idx) ==
    LET e == assert_memory_cell_exists(ra, label_a)
        a == assert_memory_cell_contains_value(ra, label_b)
        b == assert_accumulator_contains_value(ra, a_idx)
    IN  IF e.kind # "Ok" THEN Return(e, ra)
        ELSE IF a.kind # "Ok" THEN Return(a, ra)
        ELSE IF b.kind # "Ok" THEN Return(b, ra)
        ELSE StoreCalcMemoryCell(ra, label_a, calc(operation, a.value, b.value, oc))

\* calc_memory_cell_with_memory_cells as it would be if the second operand
\* were read from the destination
calc_memory_cell_with_memory_cells_reading_destination(ra, oc, operation, label_a, label_b, label_c) ==
    LET e == assert_memory_cell_exists(ra, label_a)
        a == assert_memory_cell_contains_value(ra, label_b)
        b == assert_memory_cell_contains_value(ra, label_a)
    IN  IF e.kind # "Ok" THEN Return(e, ra)
        ELSE IF a.kind # "Ok" THEN Return(a, ra)
        ELSE IF b.kind # "Ok" THEN Return(b, ra)
        ELSE StoreCalcMemoryCell(ra, label_a, calc(operation, a.value, b.value, oc))

calc_memory_cell_with_memory_cells(ra, oc, operation, label_a, label_b, label_c) ==
    LET e == assert_memory_cell_exists(ra, label_a)
        a == assert_memory_cell_contains_value(ra, label_b)
        b == assert_memory_cell_contains_value(ra, label_c)
    IN  IF e.kind # "Ok" THEN Return(e, ra)
        ELSE IF a.kind # "Ok" THEN Return(a, ra)
        ELSE IF b.kind # "Ok" THEN Return(b, ra)
        ELSE StoreCalcMemoryCell(ra, label_a, calc(operation, a.value, b.value, oc))

-----------------------------------------------------------------------------
(* The control-flow resolver.  cf is the ControlFlow value                 *)
(* [instruction_labels, next_instruction_index].                           *)

\* ControlFlow::next_instruction_index(label): on a hit the cursor becomes
\* the stored index, on a miss the call fails and the cursor stays
cf_next_instruction_index(cf, label) ==
    IF label \in DOMAIN cf.instruction_labels
    THEN [res |-> OkUnit, jumped |-> TRUE,
          cf |-> [cf EXCEPT !.next_instruction_index = cf.instruction_labels[label]]]
    ELSE [res |-> LabelNotFound(label), jumped |-> FALSE, cf |-> cf]

\* the outcome of a function that never touches the control flow, as it would
\* be if the function moved the cursor past itself on success
NoJumpAdvancing(out, cf) ==
    [res |-> out.res, ra |-> out.ra, jumped |-> FALSE,
     cf |-> IF out.res.kind = "Ok"
            THEN [cf EXCEPT !.next_instruction_index = @ + 1]
            ELSE cf]

\* the outcome of a function that never touches the control flow
NoJump(out, cf) == [res |-> out.res, ra |-> out.ra, cf |-> cf, jumped |-> FALSE]
\* the outcome of a jump function: the runtime arguments are only read
Jump(j, ra) == [res |-> j.res, ra |-> ra, cf |-> j.cf, jumped |-> j.jumped]

-----------------------------------------------------------------------------
(* instructions.rs: the jumps.                                             *)

\* goto as it would be if the resolver's failure were dropped
goto_ignoring_miss(ra, cf, label) ==
    LET j == cf_next_instruction_index(cf, label) IN
    [res |-> OkUnit, ra |-> ra, cf |-> j.cf, jumped |-> j.jumped]

goto(ra, cf, label) == Jump(cf_next_instruction_index(cf, label), ra)

\* goto_if_accumulator as it would be if the label were resolved before the
\* guard is evaluated
goto_if_accumulator_resolving_first(ra, cf, comparison, label, a_idx_a, a_idx_b) ==
    LET a == assert_accumulator_contains_value(ra, a_idx_a)
        b == assert_accumulator_contains_value(ra, a_idx_b)
        j == cf_next_instruction_index(cf, label)
    IN  IF a.kind # "Ok" THEN NoJump(Return(a, ra), cf)
        ELSE IF b.kind # "Ok" THEN NoJump(Return(b, ra), cf)
        ELSE IF j.res.kind # "Ok" THEN Jump(j, ra)
        ELSE IF cmp(comparison, a.value, b.value) THEN Jump(j, ra)
        ELSE NoJump(Return(OkUnit, ra), cf)

goto_if_accumulator(ra, cf, comparison, label, a_idx_a, a_idx_b) ==
    LET a == assert_accumulator_contains_value(ra, a_idx_a)
        b == assert_accumulator_contains_value(ra, a_idx_b)
    IN  IF a.kind # "Ok" THEN NoJump(Return(a, ra), cf)
        ELSE IF b.kind # "Ok" THEN NoJump(Return(b, ra), cf)
        ELSE IF cmp(comparison, a.value, b.value)
             THEN Jump(cf_next_instruction_index(cf, label), ra)
             ELSE NoJump(Return(OkUnit, ra), cf)

\* goto_if_constant as it would be if the resolver's failure were dropped
goto_if_constant_ignoring_miss(ra, cf, comparison, label, a_idx, c) ==
    LET a == assert_accumulator_contains_value(ra, a_idx)
        j == cf_next_instruction_index(cf, label)
    IN  IF a.kind # "Ok" THEN NoJump(Return(a, ra), cf)
        ELSE IF cmp(comparison, a.value, c)
             THEN [res |-> OkUnit, ra |-> ra, cf |-> j.cf, jumped |-> j.jumped]
             ELSE NoJump(Return(OkUnit, ra), cf)

goto_if_constant(ra, cf, comparison, label, a_idx, c) ==
    LET a == assert_accumulator_contains_value(ra, a_idx) IN
    IF a.kind # "Ok" THEN NoJump(Return(a, ra), cf)
    ELSE IF cmp(comparison, a.value, c)
         THEN Jump(cf_next_instruction_index(cf, label), ra)
         ELSE NoJump(Return(OkUnit, ra), cf)

\* goto_if_memory_cell as it would be if the label were looked up before the
\* operands are validated
goto_if_memory_cell_label_first(ra, cf, comparison, label, a_idx, mcl) ==
    LET a == assert_accumulator_contains_value(ra, a_idx)
        b == assert_memory_cell_contains_value(ra, mcl)
    IN  IF label \notin DOMAIN cf.instruction_labels
        THEN NoJump(Return(LabelNotFound(label), ra), cf)
        ELSE IF a.kind # "Ok" THEN NoJump(Return(a, ra), cf)
        ELSE IF b.kind # "Ok" THEN NoJump(Return(b, ra), cf)
        ELSE IF cmp(comparison, a.value, b.value)
             THEN Jump(cf_next_instruction_index(cf, label), ra)
             ELSE NoJump(Return(OkUnit, ra), cf)

goto_if_memory_cell(ra, cf, comparison, label, a_idx, mcl) ==
    LET a == assert_accumulator_contains_value(ra, a_idx)
        b == assert_memory_cell_contains_value(ra, mcl)
    IN  IF a.kind # "Ok" THEN NoJump(Return(a, ra), cf)
        ELSE IF b.kind # "Ok" THEN NoJump(Return(b, ra), cf)
        ELSE IF cmp(comparison, a.value, b.value)
             THEN Jump(cf_next_instruction_index(cf, label), ra)
             ELSE NoJump(Return(OkUnit, ra), cf)

-----------------------------------------------------------------------------
(* instructions.rs: the diagnostic dumps only read the runtime arguments.  *)

\* print_accumulators as it would be if it unwrapped each accumulator's data
print_accumulators_unwrapping(ra) ==
    IF \A i \in DOMAIN ra.accumulators : is_some(ra.accumulators[i])
    THEN Return(OkUnit, ra)
    ELSE Return(Panic("called unwrap on a None value"), ra)

print_accumulators(ra) == Return(OkUnit, ra)
print_memory_cells(ra) == Return(OkUnit, ra)
print_stack(ra) == Return(OkUnit, ra)

\* What the dumps print between their header and footer lines: one line
\* "{} - {:?}" per element, kept as the pair of its two fields.

\* runtime_args.accumulators.iter().enumerate(): the Vec in index order
print_accumulators_lines(ra) ==
    [k \in 1 .. Cardinality(DOMAIN ra.accumulators) |-> <<k - 1, ra.accumulators[k - 1]>>]

\* the orders in which `for (k, v) in &runtime_args.memory_cells` can visit the
\* entries of the HashMap: the map's iteration order is unspecified (it
\* depends on the hasher's random keys), so every enumeration of the labels
\* is possible
IterationOrders(cells) ==
    {o \in [1 .. Cardinality(DOMAIN cells) -> DOMAIN cells] :
        \A j, k \in DOMAIN o : j # k => o[j] # o[k]}

\* the lines of print_memory_cells when the map is iterated in the given order
print_memory_cells_lines(ra, order) ==
    [k \in 1 .. Len(order) |-> <<order[k], ra.memory_cells[order[k]]>>]

\* runtime_args.stack.iter().enumerate(): the Vec from bottom to top
print_stack_lines(ra) ==
    [k \in 1 .. Len(ra.stack) |-> <<k - 1, ra.stack[k]>>]

-----------------------------------------------------------------------------
(* Instruction::run: the dispatch on the variant.                          *)

run(i, ra, cf, oc) ==
    CASE i.name = "Push" -> NoJump(push(ra), cf)
      [] i.name = "Pop" -> NoJump(pop(ra), cf)
      [] i.name = "AssignAccumulatorValue" ->
           NoJump(assign_accumulator_value(ra, i.a_idx_a, i.value), cf)
      [] i.name = "AssignAccumulatorValueFromAccumulator" ->
           NoJump(assign_accumulator_value_from_accumulator(ra, i.a_idx_a, i.a_idx_b), cf)
      [] i.name = "AssignAccumulatorValueFromMemoryCell" ->
           NoJump(assign_accumulator_value_from_memory_cell(ra, i.a_idx_a, i.label_a), cf)
      [] i.name = "AssignMemoryCellValue" ->
           NoJump(assign_memory_cell_value(ra, i.label_a, i.value), cf)
      [] i.name = "AssignMemoryCellValueFromAccumulator" ->
           NoJump(assign_memory_cell_value_from_accumulator(ra, i.label_a, i.a_idx_a), cf)
      [] i.name = "AssingMemoryCellValueFromMemoryCell" ->
           NoJump(assign_memory_cell_value_from_memory_cell(ra, i.label_a, i.label_b), cf)
      [] i.name = "CalcAccumulatorWithConstant" ->
           NoJump(calc_accumulator_with_constant(ra, oc, i.operation, i.a_idx_a, i.value), cf)
      [] i.name = "CalcAccumulatorWithAccumulator" ->
           NoJump(calc_accumulator_with_accumulator(ra, oc, i.operation, i.a_idx_a, i.a_idx_b), cf)
      [] i.name = "CalcAccumulatorWithAccumulators" ->
           NoJump(calc_accumulator_with_accumulators(ra, oc, i.operation,
                                                     i.a_idx_a, i.a_idx_b, i.a_idx_c), cf)
      [] i.name = "CalcAccumulatorWithMemoryCell" ->
           NoJump(calc_accumulator_with_memory_cell(ra, oc, i.operation, i.a_idx_a, i.label_a), cf)
      [] i.name = "CalcAccumulatorWithMemoryCells" ->
           NoJump(calc_accumulator_with_memory_cells(ra, oc, i.operation,
                                                     i.a_idx_a, i.label_a, i.label_b), cf)
      [] i.name = "CalcMemoryCellWithMemoryCellAccumulator" ->
           NoJump(calc_memory_cell_with_memory_cell_accumulator(ra, oc, i.operation,
                                                     i.label_a, i.label_b, i.a_idx_a), cf)
      [] i.name = "CalcMemoryCellWithMemoryCellConstant" ->
           NoJump(calc_memory_cell_with_memory_cell_constant(ra, oc, i.operation,
                                                     i.label_a, i.label_b, i.value), cf)
      [] i.name = "CalcMemoryCellWithMemoryCells" ->
           NoJump(calc_memory_cell_with_memory_cells(ra, oc, i.operation,
                                                     i.label_a, i.label_b, i.label_c), cf)
      [] i.name = "Goto" -> goto(ra, cf, i.label)
      [] i.name = "GotoIfAccumulator" ->
           goto_if_accumulator(ra, cf, i.comparison, i.label, i.a_idx_a, i.a_idx_b)
      [] i.name = "GotoIfConstant" ->
           goto_if_constant(ra, cf, i.comparison, i.label, i.a_idx_a, i.value)
      [] i.name = "GotoIfMemoryCell" ->
           goto_if_memory_cell(ra, cf, i.comparison, i.label, i.a_idx_a, i.label_a)
      [] i.name = "PrintAccumulators" -> NoJump(print_accumulators(ra), cf)
      [] i.name = "PrintMemoryCells" -> NoJump(print_memory_cells(ra), cf)
      [] i.name = "PrintStack" -> NoJump(print_stack(ra), cf)

-----------------------------------------------------------------------------
(* The state machine.                                                      *)

\* the runtime arguments and the control flow of the current state
RuntimeArgs == [accumulators |-> accumulators, memory_cells |-> memory_cells,
                stack |-> stack]
ControlFlow == [instruction_labels |-> instruction_labels,
                next_instruction_index |-> next_instruction_index]
\* what an instruction can observe or change
Snapshot == [accumulators |-> accumulators, memory_cells |-> memory_cells,
             stack |-> stack, next_instruction_index |-> next_instruction_index]

\* RuntimeArgs with n accumulators and the memory cells ls, all without data;
\* ControlFlow with the label table t and the cursor at 0
Setup(n, ls, t) ==
    /\ accumulators = [i \in 0 .. (n - 1) |-> None]
    /\ memory_cells = [l \in ls |-> None]
    /\ stack = << >>
    /\ instruction_labels = t
    /\ next_instruction_index = 0
    /\ instr = NoArgs
    /\ result = NoResult
    /\ prev = [accumulators |-> [i \in 0 .. (n - 1) |-> None],
               memory_cells |-> [l \in ls |-> None],
               stack |-> << >>, next_instruction_index |-> 0]
    /\ steps = 0

\* the label table of the direct calls: "loop" is bound to LoopTarget, every
\* other label is unknown
LoopTable == [l \in {"loop"} |-> LoopTarget]

\* the unit tests' setup: an instruction is run directly on the arguments
Init ==
    /\ \E n \in 0 .. MaxAcc, ls \in SUBSET CellLabels : Setup(n, ls, LoopTable)
    /\ instructions = << >>
    /\ status = "Direct"

\* the machine state after out, the outcome of running an instruction
Commit(out) ==
    /\ accumulators' = out.ra.accumulators
    /\ memory_cells' = out.ra.memory_cells
    /\ stack' = out.ra.stack
    /\ instruction_labels' = out.cf.instruction_labels

\* the execution of i is the one the run is observed at: instr, result and
\* prev record it
Observe(i, out) ==
    /\ instr' = i
    /\ result' = out.res
    /\ prev' = Snapshot

\* the execution is one of those that set the machine up, and has to succeed
\* (the tests unwrap its result); it is not recorded
Arrange(out) ==
    /\ out.res.kind = "Ok"
    /\ steps < MaxArrange
    /\ steps' = steps + 1
    /\ instr' = NoArgs
    /\ result' = NoResult
    /\ prev' = [accumulators |-> out.ra.accumulators,
                memory_cells |-> out.ra.memory_cells,
                stack |-> out.ra.stack,
                next_instruction_index |-> out.cf.next_instruction_index]

\* instruction.run(&mut args, &mut control_flow), called directly: any number
\* of calls that set the machine up, then the call that is observed
Execute(i) ==
    /\ status = "Direct"
    /\ \E oc \in BOOLEAN :
          LET out == run(i, RuntimeArgs, ControlFlow, oc) IN
          /\ Commit(out)
          /\ next_instruction_index' = out.cf.next_instruction_index
          /\ \/ Arrange(out) /\ status' = "Direct"
             \/ Observe(i, out) /\ status' = "Observed" /\ steps' = steps
    /\ UNCHANGED instructions

DoPush == Execute(Push)
DoPop == Execute(Pop)
DoAssignAccumulatorValue ==
    \E a \in AccIdx, x \in Consts : Execute(AssignAccumulatorValue(a, x))
DoAssignAccumulatorValueFromAccumulator ==
    \E a \in AccIdx, b \in AccIdx : Execute(AssignAccumulatorValueFromAccumulator(a, b))
DoAssignAccumulatorValueFromMemoryCell ==
    \E a \in AccIdx, l \in CellLabels : Execute(AssignAccumulatorValueFromMemoryCell(a, l))
DoAssignMemoryCellValue ==
    \E l \in CellLabels, x \in Consts : Execute(AssignMemoryCellValue(l, x))
DoAssignMemoryCellValueFromAccumulator ==
    \E l \in CellLabels, a \in AccIdx : Execute(AssignMemoryCellValueFromAccumulator(l, a))
DoAssingMemoryCellValueFromMemoryCell ==
    \E la \in CellLabels, lb \in CellLabels :
        Execute(AssingMemoryCellValueFromMemoryCell(la, lb))
DoCalcAccumulatorWithConstant ==
    \E op \in Operations, a \in AccIdx, x \in Consts :
        Execute(CalcAccumulatorWithConstant(op, a, x))
DoCalcAccumulatorWithAccumulator ==
    \E op \in Operations, a \in AccIdx, b \in AccIdx :
        Execute(CalcAccumulatorWithAccumulator(op, a, b))
DoCalcAccumulatorWithAccumulators ==
    \E op \in Operations, a \in AccIdx, b \in AccIdx, c \in AccIdx :
        Execute(CalcAccumulatorWithAccumulators(op, a, b, c))
DoCalcAccumulatorWithMemoryCell ==
    \E op \in Operations, a \in AccIdx, l \in CellLabels :
        Execute(CalcAccumulatorWithMemoryCell(op, a, l))
DoCalcAccumulatorWithMemoryCells ==
    \E op \in Operations, a \in AccIdx, la \in CellLabels, lb \in CellLabels :
        Execute(CalcAccumulatorWithMemoryCells(op, a, la, lb))
DoCalcMemoryCellWithMemoryCellConstant ==
    \E op \in Operations, la \in CellLabels, lb \in CellLabels, x \in Consts :
        Execute(CalcMemoryCellWithMemoryCellConstant(op, la, lb, x))
DoCalcMemoryCellWithMemoryCellAccumulator ==
    \E op \in Operations, la \in CellLabels, lb \in CellLabels, a \in AccIdx :
        Execute(CalcMemoryCellWithMemoryCellAccumulator(op, la, lb, a))
DoCalcMemoryCellWithMemoryCells ==
    \E op \in Operations, la \in CellLabels, lb \in CellLabels, lc \in CellLabels :
        Execute(CalcMemoryCellWithMemoryCells(op, la, lb, lc))
DoGoto == \E l \in JumpLabels : Execute(Goto(l))
DoGotoIfAccumulator ==
    \E c \in Comparisons, l \in JumpLabels, a \in AccIdx, b \in AccIdx :
        Execute(GotoIfAccumulator(c, l, a, b))
DoGotoIfConstant ==
    \E c \in Comparisons, l \in JumpLabels, a \in AccIdx, x \in Consts :
        Execute(GotoIfConstant(c, l, a, x))
DoGotoIfMemoryCell ==
    \E c \in Comparisons, l \in JumpLabels, a \in AccIdx, mcl \in CellLabels :
        Execute(GotoIfMemoryCell(c, l, a, mcl))
DoPrintAccumulators == Execute(PrintAccumulators)
DoPrintMemoryCells == Execute(PrintMemoryCells)
DoPrintStack == Execute(PrintStack)

Next ==
    \/ DoPush
    \/ DoPop
    \/ DoAssignAccumulatorValue
    \/ DoAssignAccumulatorValueFromAccumulator
    \/ DoAssignAccumulatorValueFromMemoryCell
    \/ DoAssignMemoryCellValue
    \/ DoAssignMemoryCellValueFromAccumulator
    \/ DoAssingMemoryCellValueFromMemoryCell
    \/ DoCalcAccumulatorWithConstant
    \/ DoCalcAccumulatorWithAccumulator
    \/ DoCalcAccumulatorWithAccumulators
    \/ DoCalcAccumulatorWithMemoryCell
    \/ DoCalcAccumulatorWithMemoryCells
    \/ DoCalcMemoryCellWithMemoryCellConstant
    \/ DoCalcMemoryCellWithMemoryCellAccumulator
    \/ DoCalcMemoryCellWithMemoryCells
    \/ DoGoto
    \/ DoGotoIfAccumulator
    \/ DoGotoIfConstant
    \/ DoGotoIfMemoryCell
    \/ DoPrintAccumulators
    \/ DoPrintMemoryCells
    \/ DoPrintStack

Spec == Init /\ [][Next]_vars

-----------------------------------------------------------------------------
(* The driver loop (Runner): Running until the cursor leaves the program   *)
(* or an instruction fails.                                                *)

\* the label table of the driven programs: "loop" is bound to the first
\* instruction, every other label is unknown
RunnerTable == [l \in {"loop"} |-> 0]

\* the instructions the driven programs are made of
RunnerInstructions ==
    {AssignAccumulatorValue(a, x) : a \in AccIdx, x \in {0, 2}}
    \cup {AssignMemoryCellValue("a", 2)}
    \cup {Goto(l) : l \in JumpLabels}
    \cup {GotoIfAccumulator(c, l, 0, 1) : c \in {"Equal", "More"}, l \in JumpLabels}
    \cup {GotoIfConstant(c, l, 0, 2) : c \in {"Equal", "More"}, l \in JumpLabels}
    \cup {GotoIfMemoryCell(c, l, 0, "a") : c \in {"Equal", "More"}, l \in JumpLabels}

\* Runner::new_custom(instructions, runtime_args) and add_label: every
\* program of ProgLen instructions, on a machine with all slots configured
InitRunner ==
    /\ Setup(MaxAcc, CellLabels, RunnerTable)
    /\ instructions \in [1 .. ProgLen -> RunnerInstructions]
    /\ status = "Running"

\* a turn of the loop as it would be if the cursor advanced after every
\* successful instruction, jumps included
RunnerStepAlwaysAdvancing(cap) ==
    /\ status = "Running"
    /\ next_instruction_index < Len(instructions)
    /\ steps < cap
    /\ \E oc \in BOOLEAN :
          LET i == instructions[next_instruction_index + 1]
              out == run(i, RuntimeArgs, ControlFlow, oc)
          IN  /\ Commit(out)
              /\ Observe(i, out)
              /\ steps' = steps + 1
              /\ status' = CASE out.res.kind = "Ok" -> "Running"
                             [] out.res.kind = "Err" -> "Error"
                             [] out.res.kind = "Panic" -> "Aborted"
              /\ next_instruction_index' =
                    IF out.res.kind = "Ok"
                    THEN next_instruction_index + 1
                    ELSE out.cf.next_instruction_index
    /\ UNCHANGED instructions

\* a turn of the loop as it would be if a failed instruction were skipped and
\* the run went on with the next one
RunnerStepSkippingErrors(cap) ==
    /\ status = "Running"
    /\ next_instruction_index < Len(instructions)
    /\ steps < cap
    /\ \E oc \in BOOLEAN :
          LET i == instructions[next_instruction_index + 1]
              out == run(i, RuntimeArgs, ControlFlow, oc)
          IN  /\ Commit(out)
              /\ Observe(i, out)
              /\ steps' = steps + 1
              /\ status' = "Running"
              /\ next_instruction_index' =
                    IF out.jumped
                    THEN out.cf.next_instruction_index
                    ELSE next_instruction_index + 1
    /\ UNCHANGED instructions

\* a turn of the loop as it would be if a jump were recognised by comparing
\* the cursor after the instruction with the cursor before it
RunnerStepComparingCursors(cap) ==
    /\ status = "Running"
    /\ next_instruction_index < Len(instructions)
    /\ steps < cap
    /\ \E oc \in BOOLEAN :
          LET i == instructions[next_instruction_index + 1]
              out == run(i, RuntimeArgs, ControlFlow, oc)
          IN  /\ Commit(out)
              /\ Observe(i, out)
              /\ steps' = steps + 1
              /\ status' = CASE out.res.kind = "Ok" -> "Running"
                             [] out.res.kind = "Err" -> "Error"
                             [] out.res.kind = "Panic" -> "Aborted"
              /\ next_instruction_index' =
                    IF /\ out.res.kind = "Ok"
                       /\ out.cf.next_instruction_index = next_instruction_index
                    THEN next_instruction_index + 1
                    ELSE out.cf.next_instruction_index
    /\ UNCHANGED instructions

\* one turn of the loop: fetch the instruction at the cursor and execute it;
\* an error halts the run, a jump is adopted, otherwise the cursor advances.
\* At most cap instructions are executed in one run.
RunnerStepWithin(cap) ==
    /\ status = "Running"
    /\ next_instruction_index < Len(instructions)
    /\ steps < cap
    /\ \E oc \in BOOLEAN :
          LET i == instructions[next_instruction_index + 1]
              out == run(i, RuntimeArgs, ControlFlow, oc)
          IN  /\ Commit(out)
              /\ Observe(i, out)
              /\ steps' = steps + 1
              /\ status' = CASE out.res.kind = "Ok" -> "Running"
                             [] out.res.kind = "Err" -> "Error"
                             [] out.res.kind = "Panic" -> "Aborted"
              /\ next_instruction_index' =
                    IF out.res.kind = "Ok" /\ ~out.jumped
                    THEN next_instruction_index + 1
                    ELSE out.cf.next_instruction_index
    /\ UNCHANGED instructions

RunnerStep == RunnerStepWithin(MaxRunSteps)

\* the cursor has left the program: the run ends normally
RunnerEnd ==
    /\ status = "Running"
    /\ next_instruction_index >= Len(instructions)
    /\ status' = "NormalEnd"
    /\ UNCHANGED <<accumulators, memory_cells, stack, instruction_labels,
                   next_instruction_index, instructions, instr, result,
                   prev, steps>>

NextRunner == RunnerStep \/ RunnerEnd

SpecRunner == InitRunner /\ [][NextRunner]_vars

\* runner.run() is a loop of one sequential caller: while a turn of the loop
\* is possible, one is eventually taken
SpecRunnerFair == SpecRunner /\ WF_vars(NextRunner)

-----------------------------------------------------------------------------
(* Programs whose label is bound to any of their instructions, so that a   *)
(* jump can target the instruction that makes it.                          *)

\* the instructions these programs are made of
SelfJumpInstructions ==
    {AssignAccumulatorValue(0, x) : x \in {0, 2}}
    \cup {AssignMemoryCellValue("a", 2)}
    \cup {Goto(l) : l \in JumpLabels}
    \cup {GotoIfAccumulator("Equal", "loop", 0, 0)}
    \cup {GotoIfConstant(c, "loop", 0, 2) : c \in {"Equal", "More"}}
    \cup {GotoIfMemoryCell("Equal", "loop", 0, "a")}

\* Runner::new_custom(instructions, runtime_args) and add_label("loop", k)
\* for an index k of the program
InitSelfJump ==
    /\ \E k \in 0 .. (ProgLen - 1) :
          Setup(MaxAcc, CellLabels, [l \in {"loop"} |-> k])
    /\ instructions \in [1 .. ProgLen -> SelfJumpInstructions]
    /\ status = "Running"

\* runner.run() is a loop of one sequential caller: while a turn of the loop
\* is possible, one is eventually taken
SpecSelfJump == InitSelfJump /\ [][NextRunner]_vars /\ WF_vars(NextRunner)

-----------------------------------------------------------------------------
(* The two example programs of the tests, run by the driver to completion. *)

\* at most this many instructions are executed in a run of an example
MaxExampleSteps == 40
\* test_example_program_1 adds this many accumulators
ExampleAccumulators == 4

\* tests::test_example_program_1: the four-cell update
ExampleCells1 == {"a", "b", "c", "d", "w", "x", "y", "z", "h1", "h2", "h3", "h4"}
ExampleProgram1 ==
    << AssignMemoryCellValue("a", 5),
       AssignMemoryCellValue("b", 2),
       AssignMemoryCellValue("c", 3),
       AssignMemoryCellValue("d", 9),
       AssignMemoryCellValue("w", 4),
       AssignMemoryCellValue("x", 8),
       AssignMemoryCellValue("y", 3),
       AssignMemoryCellValue("z", 2),
       CalcMemoryCellWithMemoryCells("Multiplication", "h1", "a", "w"),
       CalcMemoryCellWithMemoryCells("Multiplication", "h2", "b", "y"),
       CalcMemoryCellWithMemoryCells("Multiplication", "h3", "a", "x"),
       CalcMemoryCellWithMemoryCells("Multiplication", "h4", "b", "z"),
       CalcMemoryCellWithMemoryCells("Plus", "a", "h1", "h2"),
       CalcMemoryCellWithMemoryCells("Plus", "b", "h3", "h4"),
       CalcMemoryCellWithMemoryCells("Multiplication", "h1", "c", "w"),
       CalcMemoryCellWithMemoryCells("Multiplication", "h2", "d", "y"),
       CalcMemoryCellWithMemoryCells("Multiplication", "h3", "c", "x"),
       CalcMemoryCellWithMemoryCells("Multiplication", "h4", "d", "z"),
       CalcMemoryCellWithMemoryCells("Plus", "c", "h1", "h2"),
       CalcMemoryCellWithMemoryCells("Plus", "d", "h3", "h4"),
       PrintMemoryCells >>
\* no label is added to the runner of test_example_program_1
NoLabels == [l \in {} |-> 0]

\* tests::test_example_program_2: the doubling loop
ExampleProgram2 ==
    << AssignAccumulatorValue(0, 1),
       AssignMemoryCellValue("a", 8),
       CalcAccumulatorWithConstant("Multiplication", 0, 2),
       CalcMemoryCellWithMemoryCellConstant("Minus", "a", "a", 1),
       AssignAccumulatorValueFromMemoryCell(1, "a"),
       GotoIfConstant("More", "loop", 1, 0),
       PrintMemoryCells,
       PrintAccumulators >>
\* runner.add_label("loop", 2)
ExampleTable2 == [l \in {"loop"} |-> 2]

\* Runner::new_custom(instructions, runtime_args) with the arguments the test
\* builds: four accumulators and twelve memory cells, all without data
InitExample1 ==
    /\ Setup(ExampleAccumulators, ExampleCells1, NoLabels)
    /\ instructions = ExampleProgram1
    /\ status = "Running"

\* Runner::new(instructions) and add_label: the default arguments, which hold
\* at least the accumulators 0 and 1 and the memory cell "a", without data
InitExample2 ==
    /\ \E n \in 2 .. ExampleAccumulators, ls \in SUBSET CellLabels :
          "a" \in ls /\ Setup(n, ls, ExampleTable2)
    /\ instructions = ExampleProgram2
    /\ status = "Running"

InitExamples == InitExample1 \/ InitExample2

ExampleStep == RunnerStepWithin(MaxExampleSteps)

NextExamples == ExampleStep \/ RunnerEnd

\* runner.run() is a loop of one sequential caller: while a turn of the loop
\* is possible, one is eventually taken
SpecExamples == InitExamples /\ [][NextExamples]_vars /\ WF_vars(NextExamples)

-----------------------------------------------------------------------------
(* A test in the manner of tests::test_stack: a script of assignments to   *)
(* a[0], pushes and pops, each called directly and unwrapped, so that the  *)
(* first call that fails ends the test.  instructions holds the script and *)
(* steps the number of calls made.                                         *)

\* number of calls of a script
StackScriptLen == 6

StackInstructions ==
    {AssignAccumulatorValue(0, x) : x \in {0, 2}} \cup {Push, Pop}

InitStack ==
    /\ \E n \in 1 .. MaxAcc : Setup(n, {}, LoopTable)
    /\ instructions \in [1 .. StackScriptLen -> StackInstructions]
    /\ status = "Direct"

\* the next call of the script
StackCall ==
    /\ status = "Direct"
    /\ steps < Len(instructions)
    /\ \E oc \in BOOLEAN :
          LET i == instructions[steps + 1]
              out == run(i, RuntimeArgs, ControlFlow, oc)
          IN  /\ Commit(out)
              /\ Observe(i, out)
              /\ next_instruction_index' = out.cf.next_instruction_index
              /\ steps' = steps + 1
              /\ status' = IF out.res.kind = "Ok" THEN "Direct" ELSE "Observed"
    /\ UNCHANGED instructions

NextStack == StackCall

SpecStack == InitStack /\ [][NextStack]_vars

-----------------------------------------------------------------------------
(* The primitive operators at work: two accumulators that hold any two of  *)
(* the sample values, and one calculation or one comparison of them.       *)

\* 32-bit values the operators are applied to: the extremes, zero, and small
\* values of either sign
I32Samples == {I32Min, -7, -2, -1, 0, 1, 2, 7, I32Max}

\* the machine after a[0] := x and a[1] := y
InitBase ==
    /\ \E x \in I32Samples, y \in I32Samples :
          LET acc == [i \in 0 .. 1 |-> IF i = 0 THEN Some(x) ELSE Some(y)] IN
          /\ accumulators = acc
          /\ prev = [accumulators |-> acc, memory_cells |-> [l \in {} |-> None],
                     stack |-> << >>, next_instruction_index |-> 0]
    /\ memory_cells = [l \in {} |-> None]
    /\ stack = << >>
    /\ instruction_labels = LoopTable
    /\ next_instruction_index = 0
    /\ instructions = << >>
    /\ instr = NoArgs
    /\ result = NoResult
    /\ steps = 0
    /\ status = "Direct"

\* instruction.run(&mut args, &mut control_flow), called once and observed
Call(i) ==
    /\ status = "Direct"
    /\ \E oc \in BOOLEAN :
          LET out == run(i, RuntimeArgs, ControlFlow, oc) IN
          /\ Commit(out)
          /\ Observe(i, out)
          /\ next_instruction_index' = out.cf.next_instruction_index
    /\ status' = "Observed"
    /\ UNCHANGED <<instructions, steps>>

\* a[0] := a[0] op a[1]
CallCalc == \E op \in Operations : Call(CalcAccumulatorWithAccumulator(op, 0, 1))
\* if a[0] cmp a[1] then goto label
CallCmp ==
    \E c \in Comparisons, l \in JumpLabels : Call(GotoIfAccumulator(c, l, 0, 1))

NextBase == CallCalc \/ CallCmp

SpecBase == InitBase /\ [][NextBase]_vars

-----------------------------------------------------------------------------
(* Vocabulary of the properties: the operands of the executed instruction, *)
(* read in the state the instruction started from.                         *)

\* the value of accumulator i / memory cell l in st; None if it does not exist
AccOf(st, i) == IF i \in DOMAIN st.accumulators THEN st.accumulators[i] ELSE None
CellOf(st, l) == IF l \in DOMAIN st.memory_cells THEN st.memory_cells[l] ELSE None

Failed == result.kind \in {"Err", "Panic"}

AssignFromNames == {"AssignAccumulatorValueFromAccumulator",
                    "AssignAccumulatorValueFromMemoryCell",
                    "AssignMemoryCellValueFromAccumulator",
                    "AssingMemoryCellValueFromMemoryCell"}
CalcAccumulatorNames == {"CalcAccumulatorWithConstant",
                         "CalcAccumulatorWithAccumulator",
                         "CalcAccumulatorWithAccumulators",
                         "CalcAccumulatorWithMemoryCell",
                         "CalcAccumulatorWithMemoryCells"}
CalcMemoryCellNames == {"CalcMemoryCellWithMemoryCellConstant",
                        "CalcMemoryCellWithMemoryCellAccumulator",
                        "CalcMemoryCellWithMemoryCells"}
CalcNames == CalcAccumulatorNames \cup CalcMemoryCellNames
GotoIfNames == {"GotoIfAccumulator", "GotoIfConstant", "GotoIfMemoryCell"}

\* an operand: a constant, an accumulator or a memory cell
ConstOperand(x) == [kind |-> "const", index |-> 0, label |-> "", value |-> x]
AccOperand(i) == [kind |-> "acc", index |-> i, label |-> "", value |-> 0]
CellOperand(l) == [kind |-> "cell", index |-> 0, label |-> l, value |-> 0]

\* the value an operand holds in st, None if it is missing or undefined
OperandValue(o, st) ==
    IF o.kind = "const" THEN Some(o.value)
    ELSE IF o.kind = "acc" THEN AccOf(st, o.index)
    ELSE CellOf(st, o.label)

\* the error that reading a missing or undefined operand reports
OperandError(o, st) ==
    IF o.kind = "acc"
    THEN IF o.index \in DOMAIN st.accumulators
         THEN AccumulatorNoData(o.index) ELSE AccumulatorDoesNotExist(o.index)
    ELSE IF o.label \in DOMAIN st.memory_cells
         THEN MemoryCellNoData(o.label) ELSE MemoryCellDoesNotExist(o.label)

\* the operands of the documented forms, in their order:
\*   a := b,  a := p(i),  p(i) := a,  p(i) := p(j)
\*   a := a op x,  a := a op b,  a := b op c,  a := a op p(i),  a := p(i) op p(j)
\*   p(i) := p(j) op x,  p(i) := p(j) op a,  p(i) := p(j) op p(k)
\*   if a cmp b,  if a cmp x,  if a cmp p(i)
Operand1(i) ==
    CASE i.name = "AssignAccumulatorValueFromAccumulator" -> AccOperand(i.a_idx_b)
      [] i.name = "AssignAccumulatorValueFromMemoryCell" -> CellOperand(i.label_a)
      [] i.name = "AssignMemoryCellValueFromAccumulator" -> AccOperand(i.a_idx_a)
      [] i.name = "AssingMemoryCellValueFromMemoryCell" -> CellOperand(i.label_b)
      [] i.name = "CalcAccumulatorWithConstant" -> AccOperand(i.a_idx_a)
      [] i.name = "CalcAccumulatorWithAccumulator" -> AccOperand(i.a_idx_a)
      [] i.name = "CalcAccumulatorWithAccumulators" -> AccOperand(i.a_idx_b)
      [] i.name = "CalcAccumulatorWithMemoryCell" -> AccOperand(i.a_idx_a)
      [] i.name = "CalcAccumulatorWithMemoryCells" -> CellOperand(i.label_a)
      [] i.name \in CalcMemoryCellNames -> CellOperand(i.label_b)
      [] i.name \in GotoIfNames -> AccOperand(i.a_idx_a)
      [] OTHER -> ConstOperand(0)
Operand2(i) ==
    CASE i.name = "CalcAccumulatorWithConstant" -> ConstOperand(i.value)
      [] i.name = "CalcAccumulatorWithAccumulator" -> AccOperand(i.a_idx_b)
      [] i.name = "CalcAccumulatorWithAccumulators" -> AccOperand(i.a_idx_c)
      [] i.name = "CalcAccumulatorWithMemoryCell" -> CellOperand(i.label_a)
      [] i.name = "CalcAccumulatorWithMemoryCells" -> CellOperand(i.label_b)
      [] i.name = "CalcMemoryCellWithMemoryCellConstant" -> ConstOperand(i.value)
      [] i.name = "CalcMemoryCellWithMemoryCellAccumulator" -> AccOperand(i.a_idx_a)
      [] i.name = "CalcMemoryCellWithMemoryCells" -> CellOperand(i.label_c)
      [] i.name = "GotoIfAccumulator" -> AccOperand(i.a_idx_b)
      [] i.name = "GotoIfConstant" -> ConstOperand(i.value)
      [] i.name = "GotoIfMemoryCell" -> CellOperand(i.label_a)
      [] OTHER -> ConstOperand(0)

\* the destination of an assignment or calculation
Destination(i) ==
    IF i.name \in {"AssignAccumulatorValue", "AssignAccumulatorValueFromAccumulator",
                   "AssignAccumulatorValueFromMemoryCell"} \cup CalcAccumulatorNames
    THEN AccOperand(i.a_idx_a)
    ELSE CellOperand(i.label_a)
OperandExists(o, st) ==
    IF o.kind = "acc" THEN o.index \in DOMAIN st.accumulators
    ELSE IF o.kind = "cell" THEN o.label \in DOMAIN st.memory_cells
    ELSE TRUE

\* both operands of the executed instruction held a value when it started
OperandsDefined ==
    /\ is_some(OperandValue(Operand1(instr), prev))
    /\ is_some(OperandValue(Operand2(instr), prev))
\* the first operand, in order, that was missing or undefined
FirstBadOperand ==
    IF is_some(OperandValue(Operand1(instr), prev)) THEN Operand2(instr)
    ELSE Operand1(instr)

\* the guard of the executed conditional goto, over the values it started from
GuardHolds ==
    cmp(instr.comparison, unwrap(OperandValue(Operand1(instr), prev)),
                          unwrap(OperandValue(Operand2(instr), prev)))

\* the executed instruction is a division whose operands are defined, whose
\* second operand is 0 and whose destination exists
DividesByZero ==
    /\ instr.name \in CalcNames
    /\ instr.operation = "Division"
    /\ is_some(OperandValue(Operand1(instr), prev))
    /\ OperandValue(Operand2(instr), prev) = Some(0)
    /\ OperandExists(Destination(instr), prev)

-----------------------------------------------------------------------------
(* Properties.  Unless said otherwise they are invariants of Spec: they    *)
(* speak of the observed execution (instr, result) and compare the state   *)
(* it left with prev, the state it started from.                           *)

\* C1: per-instruction atomicity.  Whenever the execution of an instruction
\* fails (an error result or a panic), the accumulators, the memory cells,
\* the stack and the cursor are exactly what they were before it started.
C1_FailureLeavesStateUnchanged == Failed => Snapshot = prev

\* a Pop that fails although values are on the stack
C1_Witness ==
    /\ instr.name = "Pop"
    /\ result.kind = "Err"
    /\ Len(prev.stack) > 0

\* C2: Pop requires only that accumulator 0 exists (defined or not): on an
\* empty stack it succeeds, sets a[0] to 0 and leaves the stack empty; on a
\* non-empty stack it succeeds, sets a[0] to the former top and removes
\* exactly that element.
C2_PopNeedsOnlyExistence ==
    (instr.name = "Pop" /\ 0 \in DOMAIN prev.accumulators) =>
        /\ result.kind = "Ok"
        /\ IF Len(prev.stack) = 0
           THEN accumulators[0] = Some(0) /\ stack = << >>
           ELSE /\ accumulators[0] = Some(prev.stack[Len(prev.stack)])
                /\ stack = SubSeq(prev.stack, 1, Len(prev.stack) - 1)

\* C3: a Calc instruction with operation Division whose second operand
\* evaluates to 0 (operands defined, destination existing) fails fatally: the
\* call does not return a result, and no value is written.
C3_DivisionByZeroIsFatal ==
    DividesByZero => result.kind = "Panic" /\ Snapshot = prev

\* p(i) := p(j) / a with a = 0 has been executed
C3_Witness ==
    /\ DividesByZero
    /\ instr.name = "CalcMemoryCellWithMemoryCellAccumulator"
    /\ instr.label_a # instr.label_b
    /\ result.kind = "Panic"

\* C4: division by zero is reported like every other error: run returns an
\* error result (DivisionByZero) to its caller instead of aborting.
C4_DivisionByZeroIsAnErrorResult ==
    DividesByZero => result.kind = "Err" /\ result.msg = "DivisionByZero"

\* C5 (under SpecRunner): a conditional goto with defined operands whose
\* guard holds sets the cursor to exactly the index stored for its label if
\* the label is in the label table; otherwise it fails with the
\* label-not-found error, the cursor is unchanged and the run has halted.
C5_TakenJumpResolvesLabel ==
    (instr.name \in GotoIfNames /\ OperandsDefined /\ GuardHolds) =>
        IF instr.label \in DOMAIN instruction_labels
        THEN /\ result.kind = "Ok"
             /\ next_instruction_index = instruction_labels[instr.label]
        ELSE /\ result = LabelNotFound(instr.label)
             /\ next_instruction_index = prev.next_instruction_index
             /\ status = "Error"
             /\ ~ENABLED NextRunner

\* if a cmp p(i) then goto none, with a true guard and "none" unknown
C5_Witness ==
    /\ instr.name = "GotoIfMemoryCell"
    /\ OperandsDefined /\ GuardHolds
    /\ instr.label \notin DOMAIN instruction_labels
    /\ status = "Error"

\* C6 (under SpecRunner): a conditional goto with defined operands whose
\* guard does not hold succeeds and does not touch the cursor, whether or not
\* its label is in the label table; the driver advances the cursor by 1.
C6_UnmetGuardAdvancesByOne ==
    (instr.name \in GotoIfNames /\ OperandsDefined /\ ~GuardHolds) =>
        /\ result.kind = "Ok"
        /\ status \in {"Running", "NormalEnd"}
        /\ next_instruction_index = prev.next_instruction_index + 1
        /\ \A oc \in BOOLEAN :
              LET out == run(instr,
                             [accumulators |-> prev.accumulators,
                              memory_cells |-> prev.memory_cells,
                              stack |-> prev.stack],
                             [instruction_labels |-> instruction_labels,
                              next_instruction_index |-> prev.next_instruction_index],
                             oc)
              IN  /\ out.cf.next_instruction_index = prev.next_instruction_index
                  /\ ~out.jumped

\* if a cmp b then goto none, with a false guard and "none" unknown
C6_Witness ==
    /\ instr.name = "GotoIfAccumulator"
    /\ instr.a_idx_a # instr.a_idx_b
    /\ OperandsDefined /\ ~GuardHolds
    /\ instr.label \notin DOMAIN instruction_labels
    /\ next_instruction_index = prev.next_instruction_index + 1

\* C7: Goto(label) with the label in the label table succeeds, the cursor
\* becomes the index stored for the label, and accumulators, memory cells and
\* stack are unchanged; with the label not in the table it fails and the
\* cursor is unchanged.
C7_GotoResolvesLabel ==
    instr.name = "Goto" =>
        /\ accumulators = prev.accumulators
        /\ memory_cells = prev.memory_cells
        /\ stack = prev.stack
        /\ IF instr.label \in DOMAIN instruction_labels
           THEN /\ result.kind = "Ok"
                /\ next_instruction_index = instruction_labels[instr.label]
           ELSE /\ result.kind = "Err"
                /\ next_instruction_index = prev.next_instruction_index

\* a goto that moved the cursor of a machine holding data
C7_Witness ==
    /\ instr.name = "Goto"
    /\ result.kind = "Ok"
    /\ prev.next_instruction_index # next_instruction_index
    /\ next_instruction_index = LoopTarget
    /\ \E i \in DOMAIN accumulators : is_some(accumulators[i])
    /\ Len(stack) > 0

\* C8: a read of a source operand distinguishes the two failure kinds.  An
\* accumulator-not-found error names an index outside the configured list,
\* an accumulator-undefined error an index in range that holds no value, and
\* symmetrically for memory cells; an instruction succeeds only if every
\* source operand existed and held a value, and an assignment from a source
\* then stores the value the source held.
C8_ReadsDistinguishFailures ==
    /\ result.msg = "AccumulatorDoesNotExist" =>
          result.index \notin DOMAIN prev.accumulators
    /\ result.msg = "AccumulatorDoesNotContainData" =>
          /\ result.index \in DOMAIN prev.accumulators
          /\ prev.accumulators[result.index] = None
    /\ result.msg = "MemoryCellDoesNotExist" =>
          result.label \notin DOMAIN prev.memory_cells
    /\ result.msg = "MemoryCellDoesNotContainData" =>
          /\ result.label \in DOMAIN prev.memory_cells
          /\ prev.memory_cells[result.label] = None
    /\ (instr.name \in AssignFromNames \cup CalcNames \cup GotoIfNames
        /\ ~OperandsDefined) =>
          /\ result.kind = "Err"
          /\ result \in {OperandError(o, prev) :
                           o \in {Operand1(instr), Operand2(instr), Destination(instr)}}
    /\ (instr.name \in AssignFromNames /\ result.kind = "Ok") =>
          OperandValue(Destination(instr), Snapshot)
              = OperandValue(Operand1(instr), prev)

\* p(i) := a failed because a exists but holds no value
C8_Witness ==
    /\ instr.name = "AssignMemoryCellValueFromAccumulator"
    /\ OperandExists(Destination(instr), prev)
    /\ result = AccumulatorNoData(instr.a_idx_a)

\* C9: every Assign instruction with a source operand checks that the
\* destination exists before it reads the source: when the destination does
\* not exist and the source is missing or undefined, the reported error is
\* the destination's not-found error.
C9_AssignChecksDestinationFirst ==
    (/\ instr.name \in AssignFromNames
     /\ ~OperandExists(Destination(instr), prev)
     /\ ~is_some(OperandValue(Operand1(instr), prev))) =>
        result = OperandError(Destination(instr), prev)

\* C10 as stated: every Calc instruction with an accumulator destination
\* reads its operands before it checks the destination: when an operand is
\* missing or undefined and the destination does not exist, the reported
\* error is the one about the operand.
C10_CalcChecksOperandsFirst ==
    (/\ instr.name \in CalcAccumulatorNames
     /\ ~OperandsDefined
     /\ ~OperandExists(Destination(instr), prev)) =>
        result = OperandError(FirstBadOperand, prev)

\* C10 as amended: every Calc instruction with an accumulator destination
\* establishes that the destination exists before it examines any other
\* operand: when an operand is missing or undefined, the reported error is
\* the destination's accumulator-not-found error if the destination does not
\* exist, and otherwise the error of the first missing or undefined operand.
C10_CalcChecksDestinationFirst ==
    (instr.name \in CalcAccumulatorNames /\ ~OperandsDefined) =>
        result = IF OperandExists(Destination(instr), prev)
                 THEN OperandError(FirstBadOperand, prev)
                 ELSE AccumulatorDoesNotExist(instr.a_idx_a)

\* a := p(i) op p(j) with a missing and p(i) existing but undefined
C10_Witness ==
    /\ instr.name = "CalcAccumulatorWithMemoryCells"
    /\ ~OperandExists(Destination(instr), prev)
    /\ OperandExists(Operand1(instr), prev)
    /\ ~is_some(OperandValue(Operand1(instr), prev))
    /\ result = AccumulatorDoesNotExist(instr.a_idx_a)

\* C11 (under SpecExamples): the doubling-loop program, started at cursor 0
\* with all slots undefined, never reports an error, eventually halts
\* normally, and in the halted state a[0] = 256.
C11_DoublingLoopYields256 ==
    /\ [](instructions = ExampleProgram2 => status \notin {"Error", "Aborted"})
    /\ [](instructions = ExampleProgram2 /\ status = "NormalEnd" =>
             accumulators[0] = Some(256))
    /\ <>(instructions = ExampleProgram2 => status = "NormalEnd")

\* the doubling loop has halted normally after its 36 instructions
C11_Witness ==
    /\ instructions = ExampleProgram2
    /\ status = "NormalEnd"
    /\ steps = 36
    /\ accumulators[0] = Some(256)
    /\ memory_cells["a"] = Some(0)

\* C12 (under SpecExamples): the four-cell update program, run from cursor
\* 0, halts normally without an error with a = 26, b = 44, c = 39, d = 42.
C12_FourCellUpdate ==
    /\ [](instructions = ExampleProgram1 => status \notin {"Error", "Aborted"})
    /\ [](instructions = ExampleProgram1 /\ status = "NormalEnd" =>
             /\ memory_cells["a"] = Some(26)
             /\ memory_cells["b"] = Some(44)
             /\ memory_cells["c"] = Some(39)
             /\ memory_cells["d"] = Some(42))
    /\ <>(instructions = ExampleProgram1 => status = "NormalEnd")

\* the four-cell update has halted normally after all its instructions
C12_Witness ==
    /\ instructions = ExampleProgram1
    /\ status = "NormalEnd"
    /\ steps = Len(ExampleProgram1)
    /\ memory_cells["d"] = Some(42)

\* the runtime arguments a script started from: nothing holds data
ScriptStart ==
    [accumulators |-> [i \in DOMAIN accumulators |-> None],
     memory_cells |-> [l \in DOMAIN memory_cells |-> None],
     stack |-> << >>]
RECURSIVE ScriptState(_)
\* the runtime arguments after the first k calls of the script
ScriptState(k) ==
    IF k = 0 THEN ScriptStart
    ELSE run(instructions[k], ScriptState(k - 1), ControlFlow, FALSE).ra
\* the calls q+1 .. q+3n of the script are n times (a[0] := v; Push) and
\* then n times Pop
IsLifoBlock(q, n) ==
    /\ q + 3 * n <= Len(instructions)
    /\ \A k \in 1 .. n :
          /\ instructions[q + 2 * k - 1].name = "AssignAccumulatorValue"
          /\ instructions[q + 2 * k] = Push
          /\ instructions[q + 2 * n + k] = Pop
\* the values v1 .. vm pushed by the block
Pushed(q, m) == [k \in 1 .. m |-> instructions[q + 2 * k - 1].value]

\* C13 (under SpecStack): Push and Pop are LIFO and round-trip.  While no
\* call has failed the machine is in the state the calls made so far lead
\* to.  If a[0] holds v, Push followed immediately by Pop succeeds and leaves
\* a[0] = v and the stack as it was before the Push.  After pushing v1..vn
\* (a[0] assigned before each Push) the stack is the former stack followed by
\* v1..vn, and the k-th of n successive Pops puts v(n-k+1) into a[0]; after
\* the n-th the stack is what it was before the first Push.
C13_PushPopIsLifo ==
    /\ status = "Direct" => RuntimeArgs = ScriptState(steps)
    /\ \A p \in 1 .. (Len(instructions) - 1) :
          (/\ instructions[p] = Push /\ instructions[p + 1] = Pop
           /\ steps = p + 1
           /\ is_some(ScriptState(p - 1).accumulators[0])) =>
              /\ result.kind = "Ok"
              /\ accumulators = ScriptState(p - 1).accumulators
              /\ stack = ScriptState(p - 1).stack
    /\ \A q \in 0 .. Len(instructions), n \in 1 .. Len(instructions) :
          IsLifoBlock(q, n) =>
              /\ steps = q + 2 * n =>
                    /\ result.kind = "Ok"
                    /\ stack = ScriptState(q).stack \o Pushed(q, n)
              /\ \A k \in 1 .. n :
                    steps = q + 2 * n + k =>
                        /\ result.kind = "Ok"
                        /\ accumulators[0] = Some(Pushed(q, n)[n - k + 1])
                        /\ stack = ScriptState(q).stack \o Pushed(q, n - k)

\* two different values were pushed and popped again: a[0] holds the first
C13_Witness ==
    /\ IsLifoBlock(0, 2)
    /\ Pushed(0, 2)[1] # Pushed(0, 2)[2]
    /\ steps = 6
    /\ result.kind = "Ok"
    /\ accumulators[0] = Some(Pushed(0, 2)[1])
    /\ stack = << >>

\* the operands the executed instruction read and the value it stored
X == unwrap(OperandValue(Operand1(instr), prev))
Y == unwrap(OperandValue(Operand2(instr), prev))
Stored == unwrap(OperandValue(Destination(instr), Snapshot))
\* a calculation whose operands were defined and whose destination existed
Calculates ==
    /\ instr.name \in CalcNames
    /\ OperandsDefined
    /\ OperandExists(Destination(instr), prev)

\* C14 (under SpecBase): Operation is total except for division by zero.
\* For every pair of 32-bit values, Plus, Minus and Multiplication return a
\* value without failing, also when the mathematical result is outside the
\* 32-bit range, and Division returns a value without failing for every
\* divisor other than 0, x = -2^31 and y = -1 included.
C14_OperationIsTotal ==
    (Calculates /\ ~(instr.operation = "Division" /\ Y = 0)) =>
        result.kind = "Ok"

\* the quotient of x and y is a 32-bit value
QuotientFits == ~(X = I32Min /\ Y = -1)
\* the remainder the stored quotient leaves
Remainder == X - Stored * Y
\* the stored value is the quotient of x and y truncated toward zero:
\* x = q * y + r with |r| < |y| and r of the sign of x or 0
StoredIsTruncatedQuotient ==
    /\ (X >= 0 => Remainder >= 0) /\ (X <= 0 => Remainder <= 0)
    /\ (Y > 0 => Remainder < Y /\ -Remainder < Y)
    /\ (Y < 0 => Remainder > Y /\ -Remainder > Y)
    /\ (X = -7 /\ Y = 2 => Stored = -3)
    /\ (X = 7 /\ Y = -2 => Stored = -3)
\* Plus, Minus and Multiplication store the exact result when it fits
StoredIsExact ==
    /\ (instr.operation = "Plus" /\ ~AddOverflows(X, Y)) =>
          result.kind = "Ok" /\ Stored = X + Y
    /\ (instr.operation = "Minus" /\ ~SubOverflows(X, Y)) =>
          result.kind = "Ok" /\ Stored = X - Y
    /\ (instr.operation = "Multiplication" /\ ~MulOverflows(X, Y)) =>
          result.kind = "Ok" /\ Stored = X * Y

\* C15 as stated (under SpecBase): for all 32-bit x and y # 0, Division
\* yields the quotient truncated toward zero, with x = (x / y) * y + r,
\* |r| < |y| and r of the sign of x or 0; Plus, Minus and Multiplication
\* yield the exact result when it fits in 32 bits.
C15_DivisionTruncates ==
    Calculates =>
        /\ (instr.operation = "Division" /\ Y # 0) =>
              result.kind = "Ok" /\ StoredIsTruncatedQuotient
        /\ StoredIsExact

\* The part of C15 that holds (under SpecBase): for all 32-bit x and y # 0
\* other than x = -2^31 with y = -1, Division yields the quotient truncated
\* toward zero, with x = (x / y) * y + r, |r| < |y| and r of the sign of x or
\* 0; for x = -2^31 and y = -1 it yields nothing and fails fatally.  Plus,
\* Minus and Multiplication yield the exact result when it fits in 32 bits.
C15_DivisionTruncatesWhenQuotientFits ==
    Calculates =>
        /\ (instr.operation = "Division" /\ Y # 0 /\ QuotientFits) =>
              result.kind = "Ok" /\ StoredIsTruncatedQuotient
        /\ (instr.operation = "Division" /\ ~QuotientFits) =>
              result.kind = "Panic" /\ Snapshot = prev
        /\ StoredIsExact

\* -7 / 2 was computed: the floored quotient would be -4
C15_Witness ==
    /\ Calculates
    /\ instr.operation = "Division"
    /\ X = -7 /\ Y = 2
    /\ result.kind = "Ok"
    /\ accumulators[0] = Some(-3)

\* the executed conditional goto took its jump: the cursor is at the index
\* of its label or, the label being unknown, the resolver's error came back
JumpTaken ==
    IF instr.label \in DOMAIN instruction_labels
    THEN result.kind = "Ok" /\ next_instruction_index = instruction_labels[instr.label]
    ELSE result = LabelNotFound(instr.label)
\* it did not: the call succeeded and the cursor stayed
JumpNotTaken ==
    result.kind = "Ok" /\ next_instruction_index = prev.next_instruction_index

\* C16 (under SpecBase): Comparison is a total predicate that matches the
\* five relations.  For all 32-bit x and y, Less holds iff x < y, LessOrEqual
\* iff x <= y, Equal iff x = y, MoreOrEqual iff x >= y and More iff x > y, as
\* seen in whether a conditional goto jumps; exactly one of Less, Equal and
\* More holds, LessOrEqual is the negation of More and MoreOrEqual that of
\* Less.
C16_ComparisonMatchesRelations ==
    (instr.name \in GotoIfNames /\ OperandsDefined) =>
        /\ IF \/ instr.comparison = "Less" /\ X < Y
              \/ instr.comparison = "LessOrEqual" /\ X <= Y
              \/ instr.comparison = "Equal" /\ X = Y
              \/ instr.comparison = "MoreOrEqual" /\ X >= Y
              \/ instr.comparison = "More" /\ X > Y
           THEN JumpTaken
           ELSE JumpNotTaken
        /\ Cardinality({c \in {"Less", "Equal", "More"} : cmp(c, X, Y)}) = 1
        /\ cmp("LessOrEqual", X, Y) = ~cmp("More", X, Y)
        /\ cmp("MoreOrEqual", X, Y) = ~cmp("Less", X, Y)

\* equal extreme values were compared with LessOrEqual, and the jump was taken
C16_Witness ==
    /\ instr.name = "GotoIfAccumulator"
    /\ instr.comparison = "LessOrEqual"
    /\ instr.label \in DOMAIN instruction_labels
    /\ OperandsDefined
    /\ X = I32Min /\ Y = I32Min
    /\ prev.next_instruction_index # LoopTarget
    /\ next_instruction_index = LoopTarget

\* C17: writing needs existence but not definedness of the destination.
\* Assigning a constant to accumulator i succeeds iff i is within the
\* configured accumulator list, assigning a constant to memory cell l
\* succeeds iff l is a configured label; on success the destination holds
\* exactly the constant, whether it was undefined or defined before, and
\* nothing else is written; on failure the error is the not-found error.
C17_WriteNeedsOnlyExistence ==
    /\ instr.name = "AssignAccumulatorValue" =>
          IF instr.a_idx_a \in DOMAIN prev.accumulators
          THEN /\ result.kind = "Ok"
               /\ accumulators =
                     [prev.accumulators EXCEPT ![instr.a_idx_a] = Some(instr.value)]
               /\ memory_cells = prev.memory_cells
          ELSE result = AccumulatorDoesNotExist(instr.a_idx_a)
    /\ instr.name = "AssignMemoryCellValue" =>
          IF instr.label_a \in DOMAIN prev.memory_cells
          THEN /\ result.kind = "Ok"
               /\ memory_cells =
                     [prev.memory_cells EXCEPT ![instr.label_a] = Some(instr.value)]
               /\ accumulators = prev.accumulators
          ELSE result = MemoryCellDoesNotExist(instr.label_a)

\* a constant was assigned to a memory cell that held no value
C17_Witness ==
    /\ instr.name = "AssignMemoryCellValue"
    /\ instr.label_a \in DOMAIN prev.memory_cells
    /\ prev.memory_cells[instr.label_a] = None
    /\ result.kind = "Ok"
    /\ memory_cells[instr.label_a] = Some(instr.value)

\* C18: Push fails iff accumulator 0 does not exist.  Whenever accumulator 0
\* exists, Push succeeds, the stack grows by exactly one element appended at
\* the top, the elements already on the stack keep their values and order,
\* and all accumulators (a[0] included), all memory cells and the cursor are
\* unchanged.
C18_PushFrame ==
    instr.name = "Push" =>
        IF 0 \in DOMAIN prev.accumulators
        THEN /\ result.kind = "Ok"
             /\ Len(stack) = Len(prev.stack) + 1
             /\ SubSeq(stack, 1, Len(prev.stack)) = prev.stack
             /\ accumulators = prev.accumulators
             /\ memory_cells = prev.memory_cells
             /\ next_instruction_index = prev.next_instruction_index
        ELSE /\ result = AccumulatorDoesNotExist(0)
             /\ Snapshot = prev

\* a value was pushed on a stack that held a different one
C18_Witness ==
    /\ instr.name = "Push"
    /\ result.kind = "Ok"
    /\ Len(prev.stack) > 0
    /\ stack[Len(stack)] # stack[1]
    /\ is_some(accumulators[0])

PrintNames == {"PrintAccumulators", "PrintMemoryCells", "PrintStack"}

\* C19: the three Print instructions never fail in any state, a machine with
\* zero accumulators, zero memory cells and an empty stack included, and they
\* leave accumulators, memory cells, stack and cursor unchanged.
C19_PrintsNeverFail ==
    instr.name \in PrintNames => result.kind = "Ok" /\ Snapshot = prev

\* a print was executed on a machine with no accumulator, no memory cell and
\* an empty stack
C19_Witness ==
    /\ instr.name \in PrintNames
    /\ result.kind = "Ok"
    /\ DOMAIN prev.accumulators = {}
    /\ DOMAIN prev.memory_cells = {}
    /\ prev.stack = << >>

\* the executed instruction is a jump that was taken
TookJump ==
    \/ instr.name = "Goto"
    \/ instr.name \in GotoIfNames /\ OperandsDefined /\ GuardHolds

\* C20 (under SpecRunnerFair): the driver's step rule.  The run starts
\* Running at cursor 0.  Every step is taken while Running, so no instruction
\* is executed after halting.  A step that executes an instruction is taken
\* with the cursor below the program length and executes the instruction at
\* the cursor; if it succeeds the run stays Running and the cursor is the
\* jump target after a taken jump and the previous cursor + 1 otherwise.
\* The only other step is the halt: it is taken with the cursor at or beyond
\* the program length, makes the run NormalEnd and changes nothing else.
\* While the cursor is below the program length the driver eventually
\* executes the instruction there, and once the cursor is at or beyond the
\* program length the run eventually is NormalEnd.
C20_DriverStepRule ==
    /\ status = "Running" /\ next_instruction_index = 0
    /\ [][/\ status = "Running"
          /\ steps' # steps =>
                /\ next_instruction_index < Len(instructions)
                /\ steps' = steps + 1
                /\ instr' = instructions[next_instruction_index + 1]
                /\ prev' = Snapshot
                /\ result'.kind = "Ok" =>
                      /\ status' = "Running"
                      /\ next_instruction_index' =
                            IF TookJump' THEN instruction_labels[instr'.label]
                            ELSE next_instruction_index + 1
          /\ steps' = steps =>
                /\ next_instruction_index >= Len(instructions)
                /\ status' = "NormalEnd"
                /\ UNCHANGED <<accumulators, memory_cells, stack,
                               next_instruction_index, instr, result>>
         ]_vars
    /\ [](status = "NormalEnd" => next_instruction_index >= Len(instructions))
    /\ (status = "Running" /\ next_instruction_index >= Len(instructions))
           ~> (status = "NormalEnd")
    /\ \A k \in 0 .. (MaxRunSteps - 1) :
          (/\ status = "Running"
           /\ next_instruction_index < Len(instructions)
           /\ steps = k) ~> (steps = k + 1)

\* the last instruction of the program jumped back to its first one
C20_Witness ==
    /\ status = "Running"
    /\ instr.name = "GotoIfConstant"
    /\ result.kind = "Ok"
    /\ TookJump
    /\ prev.next_instruction_index = Len(instructions) - 1
    /\ next_instruction_index = 0

\* the result and the state that running i in the state st yields
Rerun(i, st, oc) ==
    run(i, [accumulators |-> st.accumulators, memory_cells |-> st.memory_cells,
            stack |-> st.stack],
        [instruction_labels |-> instruction_labels,
         next_instruction_index |-> st.next_instruction_index], oc)

\* C21 (under SpecRunner): the run stops at the first failing instruction.
\* While the run is Running every instruction executed so far succeeded.  An
\* instruction that returns an error halts the run with status Error; the
\* recorded result is the error that instruction returns in the state it
\* started from, the accumulators, memory cells, stack and cursor are what
\* they were just before it, and no step is taken from the halted state, so
\* no later instruction is executed.
C21_RunStopsAtFirstError ==
    /\ [](status = "Running" /\ steps > 0 => result.kind = "Ok")
    /\ [](result.kind = "Err" =>
             /\ status = "Error"
             /\ instr = instructions[prev.next_instruction_index + 1]
             /\ \A oc \in BOOLEAN : result = Rerun(instr, prev, oc).res
             /\ Snapshot = prev
             /\ ~ENABLED NextRunner)
    /\ [][status = "Running" /\ (result'.kind = "Err" <=> status' = "Error")]_vars

\* the second instruction of three failed after the first had written a value
C21_Witness ==
    /\ status = "Error"
    /\ result.kind = "Err"
    /\ steps = 2
    /\ prev.next_instruction_index = 1
    /\ Len(instructions) = 3
    /\ \E i \in DOMAIN accumulators : is_some(accumulators[i])

\* the instruction at the cursor is a Goto whose label is bound to the cursor
AtSelfGoto ==
    /\ status = "Running"
    /\ next_instruction_index < Len(instructions)
    /\ instructions[next_instruction_index + 1].name = "Goto"
    /\ instructions[next_instruction_index + 1].label \in DOMAIN instruction_labels
    /\ instruction_labels[instructions[next_instruction_index + 1].label]
          = next_instruction_index

\* C22 (under SpecSelfJump): self jumps are honoured.  When a taken jump
\* (a Goto, or a conditional goto whose guard holds) executed at index k
\* succeeds and its label is bound to k, the cursor after the step is k again,
\* not k + 1, and the run is still Running, so the instruction executed next
\* is the one at k.  A run that is at a Goto bound to its own index stays
\* there: it never halts, and it keeps executing instructions for as long as
\* the exploration follows it.
C22_SelfJumpsAreHonoured ==
    /\ [][(/\ steps' # steps
           /\ TookJump'
           /\ result'.kind = "Ok"
           /\ instruction_labels[instr'.label] = next_instruction_index) =>
              /\ next_instruction_index' = next_instruction_index
              /\ status' = "Running"
              /\ instructions[next_instruction_index' + 1] = instr']_vars
    /\ [][AtSelfGoto => AtSelfGoto']_vars
    /\ [](AtSelfGoto => [](status = "Running"))
    /\ \A n \in 0 .. (MaxRunSteps - 1) :
          (AtSelfGoto /\ steps = n) ~> (AtSelfGoto /\ steps = n + 1)

\* the last instruction of the program, a conditional goto bound to its own
\* index, was executed twice in a row
C22_Witness ==
    /\ status = "Running"
    /\ instr.name \in GotoIfNames
    /\ TookJump
    /\ result.kind = "Ok"
    /\ instruction_labels[instr.label] = Len(instructions) - 1
    /\ prev.next_instruction_index = Len(instructions) - 1
    /\ next_instruction_index = Len(instructions) - 1
    /\ steps >= Len(instructions) + 1

\* C23: the configuration is fixed for the whole run.  No step, whether its
\* instruction succeeds or fails, adds or removes an accumulator or a memory
\* cell: the accumulator indices and the memory-cell labels after the step
\* are those before it, hence those configured before execution began; the
\* accumulators are always the indices 0 .. n-1 of a list.
C23_ConfigurationIsFixed ==
    /\ [][/\ DOMAIN accumulators' = DOMAIN accumulators
          /\ DOMAIN memory_cells' = DOMAIN memory_cells]_vars
    /\ [](/\ DOMAIN accumulators = 0 .. (Cardinality(DOMAIN accumulators) - 1)
          /\ DOMAIN accumulators = DOMAIN prev.accumulators
          /\ DOMAIN memory_cells = DOMAIN prev.memory_cells
          /\ DOMAIN memory_cells \subseteq CellLabels)

\* after two successful writes, a write to a memory cell that is not
\* configured failed, and the cell is still missing
C23_Witness ==
    /\ instr.name = "AssignMemoryCellValue"
    /\ result = MemoryCellDoesNotExist(instr.label_a)
    /\ instr.label_a \notin DOMAIN memory_cells
    /\ steps = MaxArrange
    /\ \E l \in DOMAIN memory_cells : is_some(memory_cells[l])
    /\ \E i \in DOMAIN accumulators : is_some(accumulators[i])

JumpNames == {"Goto"} \cup GotoIfNames

\* C24: control-flow state is touched only by jumps.  No step changes the
\* label table, which is the one the machine was set up with.  Every executed
\* instruction other than Goto and the three conditional gotos, successful or
\* failing, leaves the cursor where it was before the instruction.
C24_OnlyJumpsTouchControlFlow ==
    /\ [][instruction_labels' = instruction_labels]_vars
    /\ [](instruction_labels = LoopTable)
    /\ []((instr # NoArgs /\ instr.name \notin JumpNames) =>
             next_instruction_index = prev.next_instruction_index)

\* after a goto had moved the cursor to the label's index, a calculation
\* changed a memory cell and left the cursor there
C24_Witness ==
    /\ instr.name \in CalcMemoryCellNames
    /\ result.kind = "Ok"
    /\ memory_cells # prev.memory_cells
    /\ prev.next_instruction_index = LoopTarget
    /\ next_instruction_index = LoopTarget

\* the runtime arguments the executed instruction started from
PrevArgs == [accumulators |-> prev.accumulators,
             memory_cells |-> prev.memory_cells, stack |-> prev.stack]
\* the position of a memory-cell label of CellLabels in ascending label order
LabelRank(l) == IF l = "a" THEN 1 ELSE 2
\* the lines name each of the slots of dom exactly once
OneLinePerSlot(lines, dom) ==
    /\ Len(lines) = Cardinality(dom)
    /\ \A x \in dom : \E k \in DOMAIN lines : lines[k][1] = x
\* the accumulator dump printed after the executed PrintAccumulators: one line
\* per accumulator, in index order, with the accumulator's data
AccumulatorDumpIsOrdered ==
    LET lines == print_accumulators_lines(PrevArgs) IN
    /\ OneLinePerSlot(lines, DOMAIN prev.accumulators)
    /\ \A k \in DOMAIN lines : lines[k] = <<k - 1, prev.accumulators[k - 1]>>
\* the stack dump: one line per element, from position 0 upwards
StackDumpIsOrdered ==
    LET lines == print_stack_lines(PrevArgs) IN
    /\ Len(lines) = Len(prev.stack)
    /\ \A k \in DOMAIN lines : lines[k] = <<k - 1, prev.stack[k]>>
\* the memory-cell dump, whatever order the map is iterated in: one line per
\* configured cell, with the cell's data
MemoryCellDumpIsComplete ==
    \A order \in IterationOrders(prev.memory_cells) :
        LET lines == print_memory_cells_lines(PrevArgs, order) IN
        /\ OneLinePerSlot(lines, DOMAIN prev.memory_cells)
        /\ \A k \in DOMAIN lines : lines[k][2] = prev.memory_cells[lines[k][1]]
\* the memory-cell dump, whatever order the map is iterated in, lists the
\* labels in ascending order
MemoryCellDumpIsSorted ==
    \A order \in IterationOrders(prev.memory_cells) :
        LET lines == print_memory_cells_lines(PrevArgs, order) IN
        \A j, k \in DOMAIN lines :
            j < k => LabelRank(lines[j][1]) < LabelRank(lines[k][1])

\* C25 as stated: the memory-cell dump lists exactly one line per configured
\* memory cell, in ascending label order, for every set of configured labels;
\* the accumulator dump lists one line per accumulator in index order and the
\* stack dump one line per element in stack-position order.
C25_DumpsAreOrdered ==
    /\ instr.name = "PrintMemoryCells" =>
          MemoryCellDumpIsComplete /\ MemoryCellDumpIsSorted
    /\ instr.name = "PrintAccumulators" => AccumulatorDumpIsOrdered
    /\ instr.name = "PrintStack" => StackDumpIsOrdered

\* The part of C25 that holds: the memory-cell dump lists exactly one line
\* per configured memory cell, the accumulator dump one line per accumulator
\* in index order and the stack dump one line per element in stack-position
\* order; with fewer than two memory cells the memory-cell dump is in label
\* order as well.
C25_DumpsListEverySlot ==
    /\ instr.name = "PrintMemoryCells" =>
          /\ MemoryCellDumpIsComplete
          /\ Cardinality(DOMAIN prev.memory_cells) < 2 => MemoryCellDumpIsSorted
    /\ instr.name = "PrintAccumulators" => AccumulatorDumpIsOrdered
    /\ instr.name = "PrintStack" => StackDumpIsOrdered

\* C26: in every conditional goto, operand validation precedes label
\* resolution.  If an operand accumulator or memory cell is missing or
\* undefined, the instruction fails with the error of the first such operand
\* and leaves the cursor alone, whether its label is known or unknown; the
\* label plays no part: with any other label the instruction returns the
\* same error in the same state.
C26_OperandsBeforeLabel ==
    (instr.name \in GotoIfNames /\ ~OperandsDefined) =>
        /\ result = OperandError(FirstBadOperand, prev)
        /\ result.msg # "LabelNotFound"
        /\ Snapshot = prev
        /\ \A l \in JumpLabels, oc \in BOOLEAN :
              LET out == Rerun([instr EXCEPT !.label = l], prev, oc) IN
              /\ out.res = result
              /\ ~out.jumped
              /\ out.cf = ControlFlow

\* if a cmp p(i) then goto none, with a defined, p(i) configured but
\* undefined, and "none" not in the label table
C26_Witness ==
    /\ instr.name = "GotoIfMemoryCell"
    /\ instr.label \notin DOMAIN instruction_labels
    /\ is_some(OperandValue(Operand1(instr), prev))
    /\ result = MemoryCellNoData(instr.label_a)

\* C27: every successful Calc instruction stores op(first operand, second
\* operand), computed from the values the operands held before the
\* instruction, in the operand order of its documented form (a := a op x,
\* a := a op b, a := b op c, a := a op p(i), a := p(i) op p(j),
\* p(i) := p(j) op x, p(i) := p(j) op a, p(i) := p(j) op p(k)).  In particular
\* Minus stores first - second and Division first / second, also when the
\* destination is the slot of one or both operands.
C27_CalcOperandOrder ==
    (instr.name \in CalcNames /\ result.kind = "Ok") =>
        /\ OperandsDefined
        /\ \E oc \in BOOLEAN :
              calc(instr.operation, X, Y, oc) = Ok(Stored)
        /\ (instr.operation = "Minus" /\ ~SubOverflows(X, Y)) => Stored = X - Y
        /\ (instr.operation = "Division" /\ X >= 0 /\ Y > 0) => Stored = X \div Y

\* a := b - a was executed with different values in a and b
C27_Witness ==
    /\ instr.name = "CalcAccumulatorWithAccumulators"
    /\ instr.operation = "Minus"
    /\ instr.a_idx_a = instr.a_idx_c
    /\ instr.a_idx_a # instr.a_idx_b
    /\ result.kind = "Ok"
    /\ X # Y
    /\ Stored = X - Y
    /\ Stored # Y - X

AssignNames == {"AssignAccumulatorValue", "AssignMemoryCellValue"} \cup AssignFromNames

\* C28: a successful Assign or Calc instruction changes exactly one slot, its
\* destination.  Every other accumulator and every other memory cell holds
\* what it held before, so the source operands do when they are not the
\* destination; the stack and the cursor are unchanged; the destination holds
\* a value afterwards, and after an Assign it is the assigned constant or the
\* value the source held before.
C28_AssignCalcFrame ==
    (instr.name \in AssignNames \cup CalcNames /\ result.kind = "Ok") =>
        LET d == Destination(instr) IN
        /\ \A i \in DOMAIN prev.accumulators :
              ~(d.kind = "acc" /\ d.index = i) =>
                  accumulators[i] = prev.accumulators[i]
        /\ \A l \in DOMAIN prev.memory_cells :
              ~(d.kind = "cell" /\ d.label = l) =>
                  memory_cells[l] = prev.memory_cells[l]
        /\ \A o \in {Operand1(instr), Operand2(instr)} :
              (o.kind # "const" /\ o # d) =>
                  OperandValue(o, Snapshot) = OperandValue(o, prev)
        /\ stack = prev.stack
        /\ next_instruction_index = prev.next_instruction_index
        /\ OperandExists(d, prev)
        /\ is_some(OperandValue(d, Snapshot))
        /\ instr.name \in AssignFromNames =>
              OperandValue(d, Snapshot) = OperandValue(Operand1(instr), prev)
        /\ instr.name \in AssignNames \ AssignFromNames =>
              OperandValue(d, Snapshot) = Some(instr.value)

\* a := b with a # b gave a new value to a, on a machine with a value on the
\* stack; b still holds its value
C28_Witness ==
    /\ instr.name = "AssignAccumulatorValueFromAccumulator"
    /\ instr.a_idx_a # instr.a_idx_b
    /\ result.kind = "Ok"
    /\ accumulators[instr.a_idx_a] # prev.accumulators[instr.a_idx_a]
    /\ accumulators[instr.a_idx_b] = accumulators[instr.a_idx_a]
    /\ Len(stack) > 0

\* C29: definedness is monotone.  No step, whether its instruction succeeds
\* or fails, takes the value away from an accumulator or a memory cell: a
\* slot that holds a value before the step holds some value after it, hence
\* in every later state of the run.
C29_DefinednessIsMonotone ==
    /\ [][/\ \A i \in DOMAIN accumulators :
                is_some(accumulators[i]) => is_some(accumulators'[i])
          /\ \A l \in DOMAIN memory_cells :
                is_some(memory_cells[l]) => is_some(memory_cells'[l])]_vars
    /\ [](/\ \A i \in DOMAIN prev.accumulators :
                is_some(prev.accumulators[i]) => is_some(accumulators[i])
          /\ \A l \in DOMAIN prev.memory_cells :
                is_some(prev.memory_cells[l]) => is_some(memory_cells[l]))

\* a Pop on an empty stack replaced the value of a[0] by 0
C29_Witness ==
    /\ instr.name = "Pop"
    /\ result.kind = "Ok"
    /\ prev.stack = << >>
    /\ is_some(prev.accumulators[0])
    /\ prev.accumulators[0] # Some(0)
    /\ accumulators[0] = Some(0)

\* C30: a Push with accumulator 0 existing but undefined succeeds and pushes
\* the integer 0, and a[0] stays undefined; a Push with a[0] defined pushes its
\* value.  In every reachable state every element of the stack is a 32-bit
\* integer, so a 0 on the stack does not tell whether a[0] held 0 or nothing.
C30_PushOfUndefinedPushesZero ==
    /\ (instr.name = "Push" /\ 0 \in DOMAIN prev.accumulators) =>
          /\ result.kind = "Ok"
          /\ stack = Append(prev.stack, unwrap_or(prev.accumulators[0], 0))
          /\ accumulators = prev.accumulators
          /\ prev.accumulators[0] = None =>
                stack[Len(stack)] = 0 /\ accumulators[0] = None
    /\ \A k \in DOMAIN stack :
          stack[k] \in Int /\ I32Min <= stack[k] /\ stack[k] <= I32Max

\* a Push of the undefined a[0] put a 0 on the empty stack of a machine in
\* which another accumulator holds a value, and a[0] is still undefined
C30_Witness ==
    /\ instr.name = "Push"
    /\ result.kind = "Ok"
    /\ prev.accumulators[0] = None
    /\ accumulators[0] = None
    /\ Len(prev.stack) = 0
    /\ stack = <<0>>
    /\ \E i \in DOMAIN accumulators : is_some(accumulators[i])

====
